---------------------------- MODULE Spec2Model ----------------------------
(***************************************************************************)
(* picoDSP: the MIDI / SysEx protocol engine (src/control/midi.rs), the    *)
(* NoteStack, the ControlBridge (MidiControl), the preset storage          *)
(* (src/data/storage.rs) and the preset hand-over to the audio core        *)
(* (src/tasks/core1.rs).                                                   *)
(*                                                                         *)
(* Number representation.  f32 values are fixed point integers:            *)
(*   frequencies in milli-hertz, normalised values and factors in          *)
(*   millionths (1.0 = 1000000).                                           *)
(* Option<T> is a sequence of length 0 (None) or 1 (Some).                 *)
(***************************************************************************)
EXTENDS Integers, Sequences, FiniteSets, TLC

VARIABLES
    notes,                 \* midi_task: `notes`, the NoteStack
    midi_control,          \* the shared MidiControl (ControlBridge)
    current_preset_index,  \* midi_task: `current_preset_index`
    sysex_buf,             \* midi_task: `sysex_buf[..sysex_idx]`, the bytes accumulated
    sysex_idx,             \* midi_task: `sysex_idx`
    in_sysex,              \* midi_task: `in_sysex`
    flash,                 \* the storage sector at ADDR_OFFSET
    preset_channel,        \* PRESET_CHANNEL (capacity 1)
    synth,                 \* core1_task: `synth`, as the preset the voice graph was built from
    wire,                  \* USB-MIDI packets of a SysEx message still in flight from the host
    sent,                  \* history: the SysEx message the host sent last, or is sending
    last,                  \* midi_task: its last step, with `buf`, the packets it read,
                           \*   and the notes the step took out of the NoteStack
    io,                    \* midi_task: flash, USB and channel operations of its last step, in order
    press_order,           \* history: un-released notes, by their most recent Note On
    add_order,             \* history: un-released notes, by the Note On that added them
    deferred,              \* history: notes whose key was let go while the pedal was down
    broadcast,             \* history: the preset of the latest PRESET_CHANNEL.try_send, if any
    nib_byte,              \* nibble codec: the byte
    nib_pair,              \* nibble codec: its encoding
    nib_back,              \* nibble codec: the decoding of the encoding
    core1_pc,              \* core1_task: where it is in its loop
    new_preset,            \* core1_task: `new_preset` of the swap under way
    stats_left,            \* core1_task: messages print_stats has still to send
    buffer,                \* core1_task: the block synthesized last
    frame_index,           \* core1_task: `frame_index`, in blocks
    audio_channel,         \* AUDIO_CHANNEL (capacity 4)
    status_channel,        \* SYSTEM_STATUS_CHANNEL (capacity 4): the number of messages queued
    received,              \* history: the blocks main_task has received
    pending_stores,        \* midi_task: the stores the handler under way has still to make
    stored,                \* history: per field of MidiControl, the values it has held
    block_pc,              \* audio block: the next load of MidiControl it makes
    block_loads,                \* audio block: the value it block_loads from each field, if any
    gate_calls,            \* history: set_gate(false) calls since the last take_gate_reset
    reset_since,           \* history: reset() was called since the last of those calls
    taken,                 \* history: the result of the last take_gate_reset, with the
                           \* two histories as they were before it
    st_before,             \* Storage::init: the flash as init() finds it
    st_after,              \* Storage::init: the flash as init() leaves it, once it has run
    command_channel,       \* COMMAND_CHANNEL (capacity 2): the number of ResetStorage queued
    osc_waveform,          \* FastOscillator: `waveform`
    osc_phase,             \* FastOscillator: `phase`, in 1/PhaseUnits
    rev,                   \* Reverb: its combs and allpasses
    rev_out,               \* Reverb: the frame it put out last, if any
    rev_frames,            \* Reverb: the number of frames processed
    rev_hist,              \* history: what happened to the Reverb since its last reset
    tape,                  \* the host: the dump it recorded last, and the bank that was dumped
    mix,                   \* MoogOscillatorSection: levels, and phase, rng_state, freq_buffer of its sources
    mix_out,               \* MoogOscillatorSection: the block it put out last
    mix_blocks,            \* the number of blocks the MoogOscillatorSection has processed
    dsp_buffer,            \* main_task: `dsp_buffer[dsp_buffer_idx..]`, the samples not sent yet
    dsp_buffer_idx,        \* main_task: `dsp_buffer_idx`
    usb_frames_collected,  \* main_task: `usb_frames_collected`
    usb_audio_bytes,       \* main_task: `usb_audio_bytes[..usb_frames_collected * 4]`, the bytes collected
    usb_packets            \* history: the packets given to microphone.write_packet

vars == << notes, midi_control, current_preset_index, sysex_buf, sysex_idx, in_sysex,
           flash, preset_channel, synth, wire, sent, last, io,
           press_order, add_order, deferred, broadcast, nib_byte, nib_pair, nib_back,
           core1_pc, new_preset, stats_left, buffer, frame_index, audio_channel,
           status_channel, received,
           pending_stores, stored, block_pc, block_loads, gate_calls, reset_since, taken,
           st_before, st_after, command_channel,
           osc_waveform, osc_phase, rev, rev_out, rev_frames, rev_hist, tape,
           mix, mix_out, mix_blocks,
           dsp_buffer, dsp_buffer_idx, usb_frames_collected, usb_audio_bytes, usb_packets >>

protoVars == << current_preset_index, sysex_buf, sysex_idx, in_sysex, flash,
                preset_channel, synth, wire, sent >>
histVars == << press_order, add_order, deferred, broadcast >>
nibVars == << nib_byte, nib_pair, nib_back >>
audioVars == << core1_pc, new_preset, stats_left, buffer, frame_index, audio_channel,
               status_channel, received >>
bridgeVars == << pending_stores, stored, block_pc, block_loads, gate_calls, reset_since, taken >>
\* the variables of the components that are checked on their own
bootVars == << st_before, st_after >>
oscVars == << osc_waveform, osc_phase >>
revVars == << rev, rev_out, rev_frames, rev_hist >>
\* the DSP components
dspVars == << oscVars, revVars >>
\* what the later components and the host keep
mixVars == << mix, mix_out, mix_blocks >>
usbVars == << dsp_buffer, dsp_buffer_idx, usb_frames_collected, usb_audio_bytes, usb_packets >>
extraVars == << tape, mixVars, usbVars >>
unitVars == << bootVars, command_channel, dspVars, extraVars >>
\* the variables of the running device
deviceVars == << notes, midi_control, protoVars, last, io, histVars, audioVars, bridgeVars >>

---------------------------------------------------------------------------
(* Bounds of the model *)

\* heapless::Vec<u8, 16>: the model keeps the capacity small, and the host
\* plays one note more than the capacity so that the overflow happens.
NoteCapacity == 3

\* size_of::<Preset>() is 200 in the firmware; the model keeps the three
\* fields the control side reads (one byte each) and pads the rest.
PresetSize == 3

\* the audio core stops after this many blocks
MaxBlocks == 6

---------------------------------------------------------------------------
(* Program constants *)

NOTE_OFF == 128
NOTE_ON == 144
CONTROL_CHANGE == 176
PROGRAM_CHANGE == 192
PITCH_BEND == 224
SYSEX_START == 240
SYSEX_END == 247

CC_MOD_WHEEL == 1
CC_PORTAMENTO_TIME == 5
CC_SUSTAIN == 64
CC_FILTER_RESONANCE == 71
CC_FILTER_CUTOFF == 74
CC_ALL_SOUND_OFF == 120
CC_ALL_NOTES_OFF == 123

SYSEX_ID == 125
SYSEX_MODEL == 1
CMD_DUMP_REQ == 1
CMD_WRITE_REQ == 2
CMD_WRITE_SUCCESS == 3
CMD_WRITE_ERROR == 4
ERR_BAD_LENGTH == 1
ERR_BAD_MAGIC == 2

\* "PDSP", 0x50445350
MAGIC == 1346655056
VERSION == 7
HEADER_SIZE == 16
\* let mut buf = [0; 64]: a read holds up to 16 packets of 4 bytes
READ_BUF_LEN == 64
NUM_DEFAULT_PRESETS == 5
PRESET_CHANNEL_CAP == 1
COMMAND_CHANNEL_CAP == 2
AUDIO_CHANNEL_CAP == 4
\* BLOCK_SIZE: the f32 samples of a block, left and right interleaved
BLOCK_SIZE == 256
\* the stereo frames of a USB audio packet (one millisecond at 48 kHz)
USB_PACKET_FRAMES == 48
STATUS_CHANNEL_CAP == 4
\* print_stats sends 4 status messages
PRINT_STATS_MESSAGES == 4

---------------------------------------------------------------------------
(* Helpers on sequences and bytes *)

Last(s) == s[Len(s)]

Contains(s, x) == \E i \in 1..Len(s) : s[i] = x

\* Vec::remove(position(x)): drops the first occurrence of x
RemoveFirst(s, x) ==
    IF ~Contains(s, x) THEN s
    ELSE LET p == CHOOSE i \in 1..Len(s) : s[i] = x /\ \A j \in 1..(i-1) : s[j] # x
         IN  SubSeq(s, 1, p-1) \o SubSeq(s, p+1, Len(s))

Clamp(x, lo, hi) == IF x < lo THEN lo ELSE IF x > hi THEN hi ELSE x

RECURSIVE Pow2(_)
Pow2(k) == IF k <= 0 THEN 1 ELSE 2 * Pow2(k - 1)

\* 2^(k/12) in millionths, k in 0..12
SemitoneRatio == << 1000000, 1059463, 1122462, 1189207, 1259921, 1334840,
                    1414214, 1498307, 1587401, 1681793, 1781797, 1887749, 2000000 >>

\* 440.0 * powf(2.0, (note - 69) / 12), in milli-hertz
midi_to_freq(note) ==
    LET e == note - 69
        oct == e \div 12
        semi == e % 12
    IN  IF oct >= 0 THEN ((440 * SemitoneRatio[semi + 1]) \div 1000) * Pow2(oct)
        ELSE (440 * SemitoneRatio[semi + 1]) \div (1000 * Pow2(-oct))

---------------------------------------------------------------------------
(* NoteStack *)

NoteStack_new == [notes |-> << >>, pending_off |-> << >>, sustain_active |-> FALSE]

\* heapless::Vec::push: fails, and is ignored, when the vector is full
Push(v, x) == IF Len(v) < NoteCapacity THEN Append(v, x) ELSE v

\* note_on without the contains test: the note is pushed a second time
note_on_pushing_twice(ns, note) ==
    [ns EXCEPT !.pending_off = RemoveFirst(ns.pending_off, note),
               !.notes = Push(ns.notes, note)]

\* note_on that makes room for the new note by dropping the oldest one
note_on_evicting(ns, note) ==
    [ns EXCEPT !.pending_off = RemoveFirst(ns.pending_off, note),
               !.notes = IF Contains(ns.notes, note) THEN ns.notes
                         ELSE IF Len(ns.notes) < NoteCapacity
                         THEN Append(ns.notes, note)
                         ELSE Append(Tail(ns.notes), note)]

note_on(ns, note) ==
    [ns EXCEPT !.pending_off = RemoveFirst(ns.pending_off, note),
               !.notes = IF ~Contains(ns.notes, note) THEN Push(ns.notes, note)
                         ELSE ns.notes]

\* note_off that takes the note out of notes when it defers the release
note_off_moving(ns, note) ==
    IF ns.sustain_active
    THEN IF Contains(ns.notes, note) /\ ~Contains(ns.pending_off, note)
         THEN [ns EXCEPT !.pending_off = Push(ns.pending_off, note),
                         !.notes = RemoveFirst(ns.notes, note)]
         ELSE ns
    ELSE [ns EXCEPT !.notes = RemoveFirst(ns.notes, note)]

\* note_off that defers a release again when the note is pending already
note_off_repeating(ns, note) ==
    IF ns.sustain_active
    THEN IF Contains(ns.notes, note)
         THEN [ns EXCEPT !.pending_off = Push(ns.pending_off, note)]
         ELSE ns
    ELSE [ns EXCEPT !.notes = RemoveFirst(ns.notes, note)]

note_off(ns, note) ==
    IF ns.sustain_active
    THEN IF Contains(ns.notes, note) /\ ~Contains(ns.pending_off, note)
         THEN [ns EXCEPT !.pending_off = Push(ns.pending_off, note)]
         ELSE ns
    ELSE [ns EXCEPT !.notes = RemoveFirst(ns.notes, note)]

RECURSIVE RemoveAll(_, _)
RemoveAll(held, pend) ==
    IF pend = << >> THEN held
    ELSE RemoveAll(RemoveFirst(held, Head(pend)), Tail(pend))

\* set_sustain that forgets the deferred releases instead of applying them
set_sustain_forgetting(ns, active) ==
    IF ~active /\ ns.sustain_active
    THEN [ns EXCEPT !.sustain_active = active, !.pending_off = << >>]
    ELSE [ns EXCEPT !.sustain_active = active]

\* set_sustain that releases the deferred notes but keeps the list of them
set_sustain_keeping_list(ns, active) ==
    IF ~active
    THEN [ns EXCEPT !.notes = RemoveAll(ns.notes, ns.pending_off),
                    !.sustain_active = FALSE]
    ELSE [ns EXCEPT !.sustain_active = TRUE]

set_sustain(ns, active) ==
    IF ~active
    THEN [notes |-> RemoveAll(ns.notes, ns.pending_off),
          pending_off |-> << >>,
          sustain_active |-> FALSE]
    ELSE [ns EXCEPT !.sustain_active = TRUE]

clear(ns) == [notes |-> << >>, pending_off |-> << >>, sustain_active |-> FALSE]

active_note(ns) == IF ns.notes = << >> THEN << >> ELSE << Last(ns.notes) >>

---------------------------------------------------------------------------
(* MidiControl *)

MidiControl_new ==
    [target_freq |-> 440000, gate |-> FALSE, gate_reset |-> FALSE,
     portamento_amount |-> 0, pitch_bend |-> 1000000, mod_wheel |-> 0,
     parameter_1 |-> 500000, parameter_2 |-> 0]

set_freq(mc, freq) == [mc EXCEPT !.target_freq = freq]

set_gate(mc, gate) ==
    [mc EXCEPT !.gate = gate,
               !.gate_reset = IF ~gate THEN TRUE ELSE mc.gate_reset]

set_portamento(mc, amount) == [mc EXCEPT !.portamento_amount = amount]
set_pitch_bend(mc, f) == [mc EXCEPT !.pitch_bend = f]
set_mod_wheel(mc, v) == [mc EXCEPT !.mod_wheel = v]
set_parameter_1(mc, v) == [mc EXCEPT !.parameter_1 = v]
set_parameter_2(mc, v) == [mc EXCEPT !.parameter_2 = v]

\* a reset() that goes back to the state of construction
reset_to_new(mc) == MidiControl_new

reset(mc) ==
    [mc EXCEPT !.gate = FALSE, !.gate_reset = FALSE,
               !.pitch_bend = 1000000, !.mod_wheel = 0]

(* The same operations as the sequences of atomic stores they make, each
   store with the call it belongs to and whether it is the call's last. *)
Store(call, field, value, final) ==
    [call |-> call, field |-> field, value |-> value, final |-> final]

set_freq_stores(freq) == << Store("set_freq", "target_freq", freq, TRUE) >>

\* a set_gate that arms gate_reset whatever the gate
set_gate_stores_arming(gate) ==
    << Store(IF gate THEN "set_gate_true" ELSE "set_gate_false", "gate", gate, FALSE),
       Store(IF gate THEN "set_gate_true" ELSE "set_gate_false", "gate_reset", TRUE, TRUE) >>

set_gate_stores(gate) ==
    IF gate THEN << Store("set_gate_true", "gate", TRUE, TRUE) >>
    ELSE << Store("set_gate_false", "gate", FALSE, FALSE),
            Store("set_gate_false", "gate_reset", TRUE, TRUE) >>

reset_stores ==
    << Store("reset", "gate", FALSE, FALSE),
       Store("reset", "gate_reset", FALSE, FALSE),
       Store("reset", "pitch_bend", 1000000, FALSE),
       Store("reset", "mod_wheel", 0, TRUE) >>

\* what one audio block has block_loads from MidiControl: nothing yet
NothingLoaded ==
    [target_freq |-> << >>, portamento_amount |-> << >>, pitch_bend |-> << >>,
     gate |-> << >>, gate_reset |-> << >>]

---------------------------------------------------------------------------
(* Storage: the sector at ADDR_OFFSET, and the preset records in it *)

\* SECTOR_SIZE (4096 in the firmware): the header, the factory bank and room
\* for one preset more
SECTOR_SIZE == HEADER_SIZE + (NUM_DEFAULT_PRESETS + 1) * PresetSize

\* vec![0u8; 8192 + 32]
SYSEX_BUF_LEN == 2 * SECTOR_SIZE + 32

Zeros(n) == [i \in 1..n |-> 0]

\* u32::to_le_bytes / the in-memory layout of a u32 on the little-endian target
LE32Bytes(x) == << x % 256, (x \div 256) % 256, (x \div 65536) % 256, (x \div 16777216) % 256 >>

\* u32::from_le_bytes of the 4 bytes at 0-based offset off (the evaluator
\* stops on a value of 2^31 or more: no header of the model has one)
LE32(bytes, off) ==
    bytes[off + 1] + 256 * bytes[off + 2] + 65536 * bytes[off + 3] + 16777216 * bytes[off + 4]

\* Preset records, reduced to <<portamento, filter.cutoff, filter.resonance>>
\* followed by padding: portamento in 1/100, cutoff in 10 Hz, resonance in 1/20.
PresetRecord(porta, cutoff, res) == << porta, cutoff, res >> \o Zeros(PresetSize - 3)

get_default_presets ==
    << PresetRecord(92, 20, 8),     \* Lucky Man:       0.92, 200 Hz, 0.4
       PresetRecord(0, 8, 9),       \* Tom Sawyer:      0.0,   80 Hz, 0.45
       PresetRecord(85, 10, 15),    \* Moog Scream:     0.85, 100 Hz, 0.75
       PresetRecord(0, 8, 12),      \* Moog Bass:       0.0,   80 Hz, 0.6
       PresetRecord(94, 50, 12) >>  \* Octavarium Lead: 0.94, 500 Hz, 0.6

\* preset.portamento, in millionths
PresetPortamento(p) == p[1] * 10000
\* preset.filter.cutoff, in Hz
PresetCutoff(p) == p[2] * 10
\* preset.filter.resonance, in thousandths
PresetResonance(p) == p[3] * 50

RECURSIVE Concat(_)
Concat(ss) == IF ss = << >> THEN << >> ELSE Head(ss) \o Concat(Tail(ss))

StorageHeaderBytes(magic, version, num_presets, padding) ==
    LE32Bytes(magic) \o LE32Bytes(version) \o LE32Bytes(num_presets) \o LE32Bytes(padding)

\* a sector image: header, records, zero fill
BankImage(magic, version, num_presets, records) ==
    LET body == StorageHeaderBytes(magic, version, num_presets, 0) \o Concat(records)
    IN  body \o Zeros(SECTOR_SIZE - Len(body))

\* a format that leaves the last factory preset out of the count
format_counting_four == BankImage(MAGIC, VERSION, NUM_DEFAULT_PRESETS - 1, get_default_presets)

\* Storage::format: erase, then write header and defaults from a zeroed sector_buf
format == BankImage(MAGIC, VERSION, NUM_DEFAULT_PRESETS, get_default_presets)

\* an init that tests the magic only
init_magic_only(f) ==
    IF SubSeq(f, 1, 4) # LE32Bytes(MAGIC) THEN format ELSE f

\* Storage::init: header.magic != MAGIC || header.version != VERSION formats.
\* The two words are compared as their 4 bytes each.
init(f) ==
    IF SubSeq(f, 1, 4) # LE32Bytes(MAGIC) \/ SubSeq(f, 5, 8) # LE32Bytes(VERSION)
    THEN format
    ELSE f

\* flash.read at 0-based offset off from ADDR_OFFSET.  The firmware erases and
\* writes the first sector only; what lies behind it reads as erased flash.
FlashRead(f, off, len) ==
    [i \in 1..len |-> IF off + i <= Len(f) THEN f[off + i] ELSE 255]

\* load_preset with the bound test off by one
load_preset_inclusive(f, index) ==
    LET num_presets == LE32(f, 8)
    IN  IF index > num_presets THEN << >>
        ELSE << FlashRead(f, HEADER_SIZE + index * PresetSize, PresetSize) >>

load_preset(f, index) ==
    LET num_presets == LE32(f, 8)
    IN  IF index >= num_presets THEN << >>
        ELSE << FlashRead(f, HEADER_SIZE + index * PresetSize, PresetSize) >>

\* Storage::read_raw into a buffer of SECTOR_SIZE bytes
read_raw(f) == FlashRead(f, 0, SECTOR_SIZE)

\* Storage::write_raw: erase the sector, write data
write_raw(f, data) == data

---------------------------------------------------------------------------
(* Conversions of the protocol engine *)

\* d2 as f32 / 127.0, in millionths
val_norm(d2) == (d2 * 1000000) \div 127

\* the largest k with 2^(k/12) <= x / 2: log2 of cutoff / 20 in twelfths
\* (cutoff = 10 * x Hz)
Log2Twelfths(x) ==
    IF x < 2 THEN 0
    ELSE CHOOSE k \in 0..96 :
           /\ SemitoneRatio[(k % 12) + 1] * Pow2(k \div 12) <= x * 500000
           /\ SemitoneRatio[((k + 1) % 12) + 1] * Pow2((k + 1) \div 12) > x * 500000

\* (log10f(cutoff / 20.0) / log10f(1000.0)).clamp(0.0, 1.0), in millionths;
\* 12 * log2(1000) = 119.6, the logarithm is taken to a twelfth of an octave
cutoff_norm(preset) ==
    Clamp((Log2Twelfths(preset[2]) * 10000000) \div 1196, 0, 1000000)

\* ((resonance - 0.707) / 9.3).clamp(0.0, 1.0), in millionths
res_norm(preset) ==
    Clamp(((PresetResonance(preset) - 707) * 10000) \div 93, 0, 1000000)

\* MidiFilterResonance::process: q = 0.707 + parameter_2 * 9.3, in thousandths
MidiFilterResonance(mc) == 707 + (mc.parameter_2 * 93) \div 10000

\* 2^(s/12) for s in -12..12, in millionths
SemitoneFactor(s) ==
    IF s >= 0 THEN SemitoneRatio[s + 1] ELSE SemitoneRatio[s + 13] \div 2

\* powf(2.0, (norm * 2.0) / 12.0) with norm = (val - 8192) / 8192, in
\* millionths, interpolated between semitones
pitch_bend_factor(d1, d2) ==
    LET val == ((d2 * 128) % 65536) + d1 - (IF d1 >= 128 /\ (d2 % 2) = 1 THEN 128 ELSE 0)
        s == (val - 8192) \div 4096
        frac == (val - 8192) % 4096
    IN  SemitoneFactor(s) + ((SemitoneFactor(s + 1) - SemitoneFactor(s)) * frac) \div 4096

\* the dump's encoding of a byte: (byte >> 4) & 0x0F, byte & 0x0F
HighNibble(byte) == (byte \div 16) % 16
LowNibble(byte) == byte % 16

\* the decoding with the two nibbles in each other's place
DecodeNibbles_swapped(h, l) == ((l * 16) % 256) + (h % 16)

\* the write handler's decoding: (h << 4) | (l & 0x0F) in u8
DecodeNibbles(h, l) == ((h * 16) % 256) + (l % 16)

NibbleEncode(bytes) ==
    [i \in 1..(2 * Len(bytes)) |->
        IF i % 2 = 1 THEN HighNibble(bytes[(i + 1) \div 2]) ELSE LowNibble(bytes[i \div 2])]

NibbleDecode(enc, n) == [i \in 1..n |-> DecodeNibbles(enc[2 * i - 1], enc[2 * i])]

---------------------------------------------------------------------------
(* PRESET_CHANNEL and the effects a handler has on the outside *)

\* Channel::try_send: fails, and is ignored, when the channel is full
try_send(chan, x) == IF Len(chan) < PRESET_CHANNEL_CAP THEN Append(chan, x) ELSE chan

Usb(packet) == [op |-> "usb", data |-> packet]
FlashErase == [op |-> "flash_erase", data |-> << >>]
FlashWrite(data) == [op |-> "flash_write", data |-> data]
PresetSend(preset) == [op |-> "try_send", data |-> preset]

\* The state a packet handler works on: st.notes, st.mc (MidiControl),
\* st.index (current_preset_index), st.flash, st.chan (PRESET_CHANNEL), st.io,
\* st.buf / st.idx / st.insx (sysex_buf, sysex_idx, in_sysex) and st.hist

\* set_parameter_1 / set_parameter_2 / set_portamento from the preset, then try_send
ApplyPreset(st, preset) ==
    [st EXCEPT !.mc = set_portamento(
                          set_parameter_2(set_parameter_1(st.mc, cutoff_norm(preset)),
                                          res_norm(preset)),
                          PresetPortamento(preset)),
               !.chan = try_send(st.chan, preset),
               !.io = Append(st.io, PresetSend(preset))]

---------------------------------------------------------------------------
(* midi_task: channel messages *)

\* if let Some(last_note) = notes.active_note() { set_freq; set_gate(true) }
\* else { set_gate(false) }
FollowActiveNote(ns, mc) ==
    IF active_note(ns) # << >>
    THEN set_gate(set_freq(mc, midi_to_freq(active_note(ns)[1])), TRUE)
    ELSE set_gate(mc, FALSE)

NoteOnMessage(st, d1) ==
    [st EXCEPT !.notes = note_on(st.notes, d1),
               !.mc = set_gate(set_freq(st.mc, midi_to_freq(d1)), TRUE)]

\* the Note Off arm without the update of frequency and gate
NoteOffMessage_silent(st, d1) == [st EXCEPT !.notes = note_off(st.notes, d1)]

NoteOffMessage(st, d1) ==
    LET ns == note_off(st.notes, d1)
    IN  [st EXCEPT !.notes = ns, !.mc = FollowActiveNote(ns, st.mc)]

\* the sustain arm without the update of frequency and gate
SustainMessage_silent(st, d2) ==
    [st EXCEPT !.notes = set_sustain(st.notes, d2 >= 64)]

SustainMessage(st, d2) ==
    LET sustain_on == d2 >= 64
        ns == set_sustain(st.notes, sustain_on)
    IN  [st EXCEPT !.notes = ns,
                   !.mc = IF ~sustain_on THEN FollowActiveNote(ns, st.mc) ELSE st.mc]

AllOffMessage(st) ==
    [st EXCEPT !.notes = clear(st.notes), !.mc = reset(st.mc)]

ControlChangeMessage(st, d1, d2) ==
    IF d1 = CC_MOD_WHEEL THEN [st EXCEPT !.mc = set_mod_wheel(st.mc, val_norm(d2))]
    ELSE IF d1 = CC_PORTAMENTO_TIME THEN [st EXCEPT !.mc = set_portamento(st.mc, val_norm(d2))]
    ELSE IF d1 = CC_SUSTAIN THEN SustainMessage(st, d2)
    ELSE IF d1 = CC_FILTER_RESONANCE THEN [st EXCEPT !.mc = set_parameter_2(st.mc, val_norm(d2))]
    ELSE IF d1 = CC_FILTER_CUTOFF THEN [st EXCEPT !.mc = set_parameter_1(st.mc, val_norm(d2))]
    ELSE IF d1 = CC_ALL_SOUND_OFF \/ d1 = CC_ALL_NOTES_OFF THEN AllOffMessage(st)
    ELSE st

ProgramChangeMessage(st, d1) ==
    LET loaded == load_preset(st.flash, d1)
        st1 == [st EXCEPT !.index = d1]
    IN  IF loaded # << >> THEN ApplyPreset(st1, loaded[1]) ELSE st1

PitchBendMessage(st, d1, d2) ==
    [st EXCEPT !.mc = set_pitch_bend(st.mc, pitch_bend_factor(d1, d2))]

\* match status & 0xF0
\* the match without the velocity guard on the Note On arm
ChannelMessage_any_velocity(st, status, d1, d2) ==
    LET cmd == status - (status % 16)
    IN  IF cmd = NOTE_ON THEN NoteOnMessage(st, d1)
        ELSE IF cmd = NOTE_OFF THEN NoteOffMessage(st, d1)
        ELSE IF cmd = CONTROL_CHANGE THEN ControlChangeMessage(st, d1, d2)
        ELSE IF cmd = PROGRAM_CHANGE THEN ProgramChangeMessage(st, d1)
        ELSE IF cmd = PITCH_BEND THEN PitchBendMessage(st, d1, d2)
        ELSE st

ChannelMessage(st, status, d1, d2) ==
    LET cmd == status - (status % 16)
    IN  IF cmd = NOTE_ON /\ d2 > 0 THEN NoteOnMessage(st, d1)
        ELSE IF cmd = NOTE_OFF \/ cmd = NOTE_ON THEN NoteOffMessage(st, d1)
        ELSE IF cmd = CONTROL_CHANGE THEN ControlChangeMessage(st, d1, d2)
        ELSE IF cmd = PROGRAM_CHANGE THEN ProgramChangeMessage(st, d1)
        ELSE IF cmd = PITCH_BEND THEN PitchBendMessage(st, d1, d2)
        ELSE st

---------------------------------------------------------------------------
(* midi_task: SysEx *)

\* the packet loop without the closing packet for an encoding that is a
\* whole number of packets
RECURSIVE DumpPackets_unterminated(_)
DumpPackets_unterminated(enc) ==
    IF Len(enc) >= 3
    THEN << << 4, enc[1], enc[2], enc[3] >> >> \o DumpPackets_unterminated(SubSeq(enc, 4, Len(enc)))
    ELSE IF Len(enc) = 2 THEN << << 7, enc[1], enc[2], SYSEX_END >> >>
    ELSE IF Len(enc) = 1 THEN << << 6, enc[1], SYSEX_END, 0 >> >>
    ELSE << >>

\* the packets a sequence of bytes goes out in: 3 bytes under CIN 0x4, then
\* the terminal packet closing with 0xF7
RECURSIVE DumpPackets(_)
DumpPackets(enc) ==
    IF Len(enc) >= 3
    THEN << << 4, enc[1], enc[2], enc[3] >> >> \o DumpPackets(SubSeq(enc, 4, Len(enc)))
    ELSE IF Len(enc) = 2 THEN << << 7, enc[1], enc[2], SYSEX_END >> >>
    ELSE IF Len(enc) = 1 THEN << << 6, enc[1], SYSEX_END, 0 >> >>
    ELSE << << 5, SYSEX_END, 0, 0 >> >>

\* a dump that encodes the whole bank after the packet with its first byte
DumpResponse_repeating_first(f) ==
    LET raw_data == read_raw(f)
        p1 == << 4, SYSEX_START, SYSEX_ID, SYSEX_MODEL >>
        p2 == << 4, CMD_WRITE_REQ, HighNibble(raw_data[1]), LowNibble(raw_data[1]) >>
        encoded_buf == NibbleEncode(raw_data)
    IN  << p1, p2 >> \o DumpPackets(encoded_buf)

\* CMD_DUMP_REQ: the packets written to the sender
DumpResponse(f) ==
    LET raw_data == read_raw(f)
        p1 == << 4, SYSEX_START, SYSEX_ID, SYSEX_MODEL >>
        p2 == << 4, CMD_WRITE_REQ, HighNibble(raw_data[1]), LowNibble(raw_data[1]) >>
        encoded_buf == NibbleEncode(SubSeq(raw_data, 2, Len(raw_data)))
    IN  << p1, p2 >> \o DumpPackets(encoded_buf)

DumpRequest(st) ==
    LET packets == DumpResponse(st.flash)
    IN  [st EXCEPT !.io = st.io \o [i \in 1..Len(packets) |-> Usb(packets[i])]]

WriteSuccessResponse ==
    << Usb(<< 4, SYSEX_START, SYSEX_ID, SYSEX_MODEL >>),
       Usb(<< 6, CMD_WRITE_SUCCESS, SYSEX_END, 0 >>) >>

WriteErrorResponse(code) ==
    << Usb(<< 4, SYSEX_START, SYSEX_ID, SYSEX_MODEL >>),
       Usb(<< 7, CMD_WRITE_ERROR, code, SYSEX_END >>) >>

\* the magic == STORAGE_MAGIC && version == STORAGE_VERSION test
HeaderAccepted(decoded_data) ==
    LE32(decoded_data, 0) = MAGIC /\ LE32(decoded_data, 4) = VERSION

\* the write handler without the magic and version test
WriteRequest_unchecked(st, msg) ==
    LET encoded_data == SubSeq(msg, 5, Len(msg) - 1)
    IN  IF Len(encoded_data) = 2 * SECTOR_SIZE
        THEN LET decoded_data == NibbleDecode(encoded_data, SECTOR_SIZE)
             IN  [st EXCEPT !.flash = write_raw(st.flash, decoded_data),
                            !.io = st.io \o << FlashErase, FlashWrite(decoded_data) >>
                                         \o WriteSuccessResponse]
        ELSE [st EXCEPT !.io = st.io \o WriteErrorResponse(ERR_BAD_LENGTH)]

\* CMD_WRITE_REQ
WriteRequest(st, msg) ==
    LET encoded_data == SubSeq(msg, 5, Len(msg) - 1)
    IN  IF Len(encoded_data) = 2 * SECTOR_SIZE
        THEN LET decoded_data == NibbleDecode(encoded_data, SECTOR_SIZE)
             IN  IF HeaderAccepted(decoded_data)
                 THEN LET st1 == [st EXCEPT
                                    !.flash = write_raw(st.flash, decoded_data),
                                    !.io = st.io \o << FlashErase, FlashWrite(decoded_data) >>
                                                 \o WriteSuccessResponse]
                          loaded == load_preset(st1.flash, st1.index)
                      IN  IF loaded # << >> THEN ApplyPreset(st1, loaded[1]) ELSE st1
                 ELSE [st EXCEPT !.io = st.io \o WriteErrorResponse(ERR_BAD_MAGIC)]
        ELSE [st EXCEPT !.io = st.io \o WriteErrorResponse(ERR_BAD_LENGTH)]

\* the test a terminated message passes before it is dispatched
\* the header check without the model ID
SysexAddressed_any_model(msg) ==
    /\ Len(msg) >= 5
    /\ msg[1] = SYSEX_START
    /\ msg[Len(msg)] = SYSEX_END
    /\ msg[2] = SYSEX_ID

SysexAddressed(msg) ==
    /\ Len(msg) >= 5
    /\ msg[1] = SYSEX_START
    /\ msg[Len(msg)] = SYSEX_END
    /\ msg[2] = SYSEX_ID
    /\ msg[3] = SYSEX_MODEL

SysexDispatch(st, msg) ==
    IF SysexAddressed(msg)
    THEN IF msg[4] = CMD_DUMP_REQ THEN DumpRequest(st)
         ELSE IF msg[4] = CMD_WRITE_REQ THEN WriteRequest(st, msg)
         ELSE st
    ELSE st

\* sysex_buf is written at sysex_idx and read below sysex_idx only: the model
\* keeps the bytes below sysex_idx, buf = sysex_buf[..sysex_idx], and
\* SYSEX_BUF_LEN stands for sysex_buf.len().

\* cin == 0x4: the accumulation state <<sysex_buf, sysex_idx, in_sysex>> after the packet
SysexContinue(buf, idx, active, packet) ==
    LET idx0 == IF ~active THEN 0 ELSE idx
    IN  IF idx0 + 3 < SYSEX_BUF_LEN
        THEN << SubSeq(buf, 1, idx0) \o << packet[2], packet[3], packet[4] >>,
                idx0 + 3, TRUE >>
        ELSE << SubSeq(buf, 1, idx0), idx0, TRUE >>

SysexEndLen(cin) == IF cin = 5 THEN 1 ELSE IF cin = 6 THEN 2 ELSE IF cin = 7 THEN 3 ELSE 0

\* cin == 0x5 / 0x6 / 0x7: whether the packet closes the message
SysexEndAccepted(buf, idx, active, cin) == active /\ idx + SysexEndLen(cin) <= SYSEX_BUF_LEN

SysexEnd(buf, idx, active, packet) ==
    LET len == SysexEndLen(packet[1] % 16)
    IN  IF SysexEndAccepted(buf, idx, active, packet[1] % 16)
        THEN << buf \o SubSeq(packet, 2, 1 + len), idx + len, FALSE >>
        ELSE << buf, idx, active >>

---------------------------------------------------------------------------
(* The host: the traffic offered to the device *)

NoteNumbers == {60, 62, 64, 65}
Velocities == {0, 100}
SustainValues == {63, 64}
ParamControllers == {CC_MOD_WHEEL, CC_PORTAMENTO_TIME, CC_FILTER_RESONANCE, CC_FILTER_CUTOFF, 7}
ParamValues == {0, 127}
ProgramNumbers == {1, 4, 5}
BendValues == {<< 0, 0 >>, << 0, 64 >>, << 127, 127 >>}

\* a bank of five presets that differ from the factory presets
AltBank ==
    BankImage(MAGIC, VERSION, NUM_DEFAULT_PRESETS,
              << PresetRecord(10, 200, 100), PresetRecord(20, 100, 40),
                 PresetRecord(30, 50, 60), PresetRecord(40, 25, 80),
                 PresetRecord(50, 2, 200) >>)

\* a bank of two presets: index 4 is not in it
SmallBank ==
    BankImage(MAGIC, VERSION, 2, << PresetRecord(10, 200, 100), PresetRecord(20, 100, 40) >>)

BadMagicBank == BankImage(MAGIC + 256, VERSION, NUM_DEFAULT_PRESETS, get_default_presets)
BadVersionBank == BankImage(MAGIC, VERSION - 1, NUM_DEFAULT_PRESETS, get_default_presets)

SysexMessage(cmd, payload) ==
    << SYSEX_START, SYSEX_ID, SYSEX_MODEL, cmd >> \o payload \o << SYSEX_END >>

WriteMessage(image) == SysexMessage(CMD_WRITE_REQ, NibbleEncode(image))

HostMessages ==
    { WriteMessage(AltBank), WriteMessage(SmallBank),
      WriteMessage(BadMagicBank), WriteMessage(BadVersionBank),
      \* one byte short, one byte long
      WriteMessage(SubSeq(AltBank, 1, SECTOR_SIZE - 1)),
      WriteMessage(AltBank \o << 0 >>),
      \* longer than sysex_buf
      WriteMessage(AltBank \o Zeros(SECTOR_SIZE \div 2)),
      SysexMessage(CMD_DUMP_REQ, << >>),
      \* an unknown command, a foreign manufacturer
      SysexMessage(5, << >>),
      << SYSEX_START, 126, SYSEX_MODEL, CMD_WRITE_REQ, SYSEX_END >> }

\* messages that are not for this device: a wrong start byte, a foreign
\* model, no 0xF7 at the end, four bytes only
StrayMessages ==
    { << 0, SYSEX_ID, SYSEX_MODEL, CMD_DUMP_REQ, SYSEX_END >>,
      << SYSEX_START, SYSEX_ID, SYSEX_MODEL + 1, CMD_DUMP_REQ, SYSEX_END >>,
      << SYSEX_START, SYSEX_ID, SYSEX_MODEL, CMD_DUMP_REQ, 0 >>,
      << SYSEX_START, SYSEX_ID, SYSEX_MODEL, SYSEX_END >>,
      << SYSEX_START, SYSEX_ID, SYSEX_MODEL, CMD_WRITE_REQ >> \o NibbleEncode(AltBank) }

\* USB-MIDI framing of a SysEx message: CIN 0x4 for 3 bytes that do not end
\* it, CIN 0x5 / 0x6 / 0x7 for the last 1 / 2 / 3 bytes
RECURSIVE HostPackets(_)
HostPackets(msg) ==
    IF Len(msg) > 3
    THEN << << 4, msg[1], msg[2], msg[3] >> >> \o HostPackets(SubSeq(msg, 4, Len(msg)))
    ELSE IF Len(msg) = 3 THEN << << 7, msg[1], msg[2], msg[3] >> >>
    ELSE IF Len(msg) = 2 THEN << << 6, msg[1], msg[2], 0 >> >>
    ELSE << << 5, msg[1], 0, 0 >> >>

---------------------------------------------------------------------------
(* History of the key and pedal events, as a player sees them:
   h.press_order, h.add_order, h.deferred *)

SeqSet(s) == {s[i] : i \in 1..Len(s)}

RemoveSet(s, S) == SelectSeq(s, LAMBDA x : x \notin S)

History(h, pedal, packet) ==
    LET cin == packet[1] % 16
        cmd == packet[2] - (packet[2] % 16)
        d1 == packet[3]
        d2 == packet[4]
    IN  IF cin \in {4, 5, 6, 7} THEN h
        ELSE IF cmd = NOTE_ON /\ d2 > 0
        THEN [press_order |-> Append(RemoveSet(h.press_order, {d1}), d1),
              add_order |-> IF d1 \in SeqSet(h.add_order) \/ Len(h.add_order) >= NoteCapacity
                            THEN h.add_order ELSE Append(h.add_order, d1),
              deferred |-> h.deferred \ {d1}]
        ELSE IF cmd = NOTE_OFF \/ cmd = NOTE_ON
        THEN IF pedal
             THEN [h EXCEPT !.deferred = h.deferred \cup ({d1} \cap SeqSet(h.press_order))]
             ELSE [press_order |-> RemoveSet(h.press_order, {d1}),
                   add_order |-> RemoveSet(h.add_order, {d1}),
                   deferred |-> h.deferred \ {d1}]
        ELSE IF cmd = CONTROL_CHANGE /\ d1 = CC_SUSTAIN /\ d2 < 64
        THEN [press_order |-> RemoveSet(h.press_order, h.deferred),
              add_order |-> RemoveSet(h.add_order, h.deferred),
              deferred |-> {}]
        ELSE IF cmd = CONTROL_CHANGE /\ d1 \in {CC_ALL_SOUND_OFF, CC_ALL_NOTES_OFF}
        THEN [press_order |-> << >>, add_order |-> << >>, deferred |-> {}]
        ELSE h

---------------------------------------------------------------------------
(* FastOscillator.  The phase is a whole number of 1/PhaseUnits of a cycle
   and a frequency a whole number of Hz; the rounding of f32 is left out. *)

PhaseUnits == 48
OSC_SAMPLE_RATE == 48000
\* the guards keep the phase within this many cycles of zero
MaxCycles == 3

\* FastOscillator::new
OscNew(waveform) == osc_waveform = waveform /\ osc_phase = 0

\* let inc = freq * inv_sr
PhaseInc(freq) == (freq * PhaseUnits) \div OSC_SAMPLE_RATE

\* phase += inc; if phase >= 1.0 { phase -= 1.0; } else if phase < 0.0 { phase += 1.0; }
AdvancePhase(phase, freq) ==
    LET sum == phase + PhaseInc(freq)
    IN  IF sum >= PhaseUnits THEN sum - PhaseUnits
        ELSE IF sum < 0 THEN sum + PhaseUnits
        ELSE sum

---------------------------------------------------------------------------
(* MoogOscillatorSection: three Triangle oscillators one octave apart and
   the noise source, blocks of MixBlockLen samples.  Samples are in
   1/PhaseUnits, levels in ten-thousandths. *)

\* samples per block
MixBlockLen == 2

\* the blocks a mixer processes
MaxMixBlocks == 3

\* 0.0001, in ten-thousandths
LEVEL_THRESHOLD == 1

\* rng_state: 12345
RNG_SEED == 12345

\* the frequency of source i is the block's frequency times this; every
\* FastOscillator keeps the frequency of the block it processed last in
\* freq_buffer
MixOctave == << 1, 2, 4, 1 >>

\* MoogOscillatorSection::new, and FastOscillator::new for its sources
MoogOscillatorSection_new(levels) ==
    [level |-> levels, phase |-> << 0, 0, 0 >>, rng_state |-> RNG_SEED,
     freq_buffer |-> << 0, 0, 0, 0 >>]

\* Waveform::Triangle: if x < 0.5 { 4.0 * x - 1.0 } else { 4.0 * (1.0 - x) - 1.0 }
Triangle(x) ==
    IF 2 * x < PhaseUnits THEN 4 * x - PhaseUnits ELSE 4 * (PhaseUnits - x) - PhaseUnits

\* FastOscillator::process for Triangle: << samples, phase >> after n samples
RECURSIVE OscBlock(_, _, _)
OscBlock(phase, freq, n) ==
    IF n = 0 THEN << << >>, phase >>
    ELSE LET p == AdvancePhase(phase, freq)
             rest == OscBlock(p, freq, n - 1)
         IN  << << Triangle(p) >> \o rest[1], rest[2] >>

\* next_random: the linear congruential step, on 16 bits for the code's 32
NextRandom(rng_state) == (rng_state * 20077 + 12345) % 65536

\* (val as f32 / 32768.0) * 2.0 - 1.0 with val the 15 bits above bit 0
RandomValue(rng_state) == (((rng_state \div 2) % 32768) * 2 * PhaseUnits) \div 32768 - PhaseUnits

\* FastOscillator::process for WhiteNoise: << samples, rng_state >> after n samples
RECURSIVE NoiseBlock(_, _)
NoiseBlock(rng_state, n) ==
    IF n = 0 THEN << << >>, rng_state >>
    ELSE LET r == NextRandom(rng_state)
             rest == NoiseBlock(r, n - 1)
         IN  << << RandomValue(r) >> \o rest[1], rest[2] >>

\* a level test that lets a level of exactly 0.0001 through
LevelOn_inclusive(level) == level >= LEVEL_THRESHOLD

\* self.levelN > 0.0001
LevelOn(level) == level > LEVEL_THRESHOLD

\* *s += *scratch * level, over the block
MixIn(out, scratch, level) == [i \in 1..Len(out) |-> out[i] + scratch[i] * level]

\* MoogOscillatorSection::process: << the section afterwards, the block >>
MoogOscillatorSection_process(m, freq) ==
    LET b1 == OscBlock(m.phase[1], freq * MixOctave[1], MixBlockLen)
        b2 == OscBlock(m.phase[2], freq * MixOctave[2], MixBlockLen)
        b3 == OscBlock(m.phase[3], freq * MixOctave[3], MixBlockLen)
        bn == NoiseBlock(m.rng_state, MixBlockLen)
        buf1 == IF LevelOn(m.level[1]) THEN [i \in 1..MixBlockLen |-> b1[1][i] * m.level[1]]
                ELSE Zeros(MixBlockLen)
        buf2 == IF LevelOn(m.level[2]) THEN MixIn(buf1, b2[1], m.level[2]) ELSE buf1
        buf3 == IF LevelOn(m.level[3]) THEN MixIn(buf2, b3[1], m.level[3]) ELSE buf2
        buf4 == IF LevelOn(m.level[4]) THEN MixIn(buf3, bn[1], m.level[4]) ELSE buf3
    IN  << [m EXCEPT !.phase = << IF LevelOn(m.level[1]) THEN b1[2] ELSE m.phase[1],
                                   IF LevelOn(m.level[2]) THEN b2[2] ELSE m.phase[2],
                                   IF LevelOn(m.level[3]) THEN b3[2] ELSE m.phase[3] >>,
                      !.rng_state = IF LevelOn(m.level[4]) THEN bn[2] ELSE m.rng_state,
                      !.freq_buffer = [i \in 1..4 |-> IF LevelOn(m.level[i]) THEN freq * MixOctave[i]
                                                      ELSE m.freq_buffer[i]]],
           buf4 >>

---------------------------------------------------------------------------
(* Reverb, with one comb and one allpass per side, delay lines of a few
   samples and whole-number samples *)

DelayLine_new(size) == [buffer |-> Zeros(size), pos |-> 0]

\* DelayLine::process: << the line afterwards, the output >>
DelayLine_process(d, input) ==
    << [buffer |-> [d.buffer EXCEPT ![d.pos + 1] = input],
        pos |-> (d.pos + 1) % Len(d.buffer)],
       d.buffer[d.pos + 1] >>

DelayLine_reset(d) == [buffer |-> Zeros(Len(d.buffer)), pos |-> 0]

Comb_new(size) == [delay |-> DelayLine_new(size), filter_state |-> 0]

\* x * num / 1000, rounded towards zero
Scale(x, num) == IF x >= 0 THEN (x * num) \div 1000 ELSE -(((-x) * num) \div 1000)

\* Comb::process with feedback and damp in thousandths
Comb_process(c, input, feedback, damp) ==
    LET r == DelayLine_process(c.delay, input + Scale(c.filter_state, feedback))
    IN  << [delay |-> r[1],
            filter_state |-> Scale(r[2], 1000 - damp) + Scale(c.filter_state, damp)],
           r[2] >>

\* a Comb::reset that leaves the damping filter alone
Comb_reset_keeping_filter(c) == [c EXCEPT !.delay = DelayLine_reset(c.delay)]

Comb_reset(c) == [delay |-> DelayLine_reset(c.delay), filter_state |-> 0]

Allpass_new(size) == [delay |-> DelayLine_new(size)]

\* Allpass::process, feedback 0.5
Allpass_process(a, input) ==
    LET r == DelayLine_process(a.delay, input)
        output == r[2] - input
        buf_len == Len(r[1].buffer)
        write_pos == (r[1].pos + buf_len - 1) % buf_len
    IN  << [delay |-> [r[1] EXCEPT !.buffer[write_pos + 1] = @ + Scale(output, 500)]],
           output >>

Allpass_reset(a) == [delay |-> DelayLine_reset(a.delay)]

\* Reverb::new_with_params, the tunings reduced to 2 and 1 samples with a
\* stereo spread of 1
Reverb_new ==
    [comb_l |-> Comb_new(2), comb_r |-> Comb_new(3),
     allpass_l |-> Allpass_new(1), allpass_r |-> Allpass_new(2)]

\* room_size 0.8 and damping 0.2: rs = 0.8 * 0.28 + 0.7, dp = 0.2 * 0.4
REVERB_FEEDBACK == 924
REVERB_DAMP == 80

\* one frame of Reverb::process: << the reverb afterwards, the frame put out >>;
\* input = (frame[0] + frame[1]) * 0.5 * 0.015
Reverb_process(r, frame) ==
    LET input == Scale(frame[1] + frame[2], 15) \div 2
        cl == Comb_process(r.comb_l, input, REVERB_FEEDBACK, REVERB_DAMP)
        cr == Comb_process(r.comb_r, input, REVERB_FEEDBACK, REVERB_DAMP)
        al == Allpass_process(r.allpass_l, cl[2])
        ar == Allpass_process(r.allpass_r, cr[2])
    IN  << [comb_l |-> cl[1], comb_r |-> cr[1], allpass_l |-> al[1], allpass_r |-> ar[1]],
           << al[2], ar[2] >> >>

\* Reverb::reset
Reverb_reset(r) ==
    [comb_l |-> Comb_reset(r.comb_l), comb_r |-> Comb_reset(r.comb_r),
     allpass_l |-> Allpass_reset(r.allpass_l), allpass_r |-> Allpass_reset(r.allpass_r)]

\* Reverb::new
RevNew ==
    /\ rev = Reverb_new
    /\ rev_out = << >>
    /\ rev_frames = 0
    /\ rev_hist = [now |-> "new", cleared |-> FALSE]

---------------------------------------------------------------------------
(* Initial state: main() has run storage.init(), loaded preset 4 and set up
   the MidiControl; core1_task has built the first voice graph *)

\* storage.init(): a bank with the right magic and version is kept, anything
\* else is formatted
InitialBanks == {format}

\* storage.load_preset(4).unwrap_or_else(|| get_default_presets()[4])
InitialPreset(f) == IF load_preset(f, 4) # << >> THEN load_preset(f, 4)[1]
                    ELSE get_default_presets[5]

InitDevice ==
    /\ flash \in InitialBanks
    /\ notes = NoteStack_new
    /\ midi_control =
         set_portamento(
            set_parameter_2(set_parameter_1(MidiControl_new, cutoff_norm(InitialPreset(flash))),
                            res_norm(InitialPreset(flash))),
            PresetPortamento(InitialPreset(flash)))
    /\ current_preset_index = 4
    /\ sysex_buf = << >>
    /\ sysex_idx = 0
    /\ in_sysex = FALSE
    /\ preset_channel = << >>
    /\ synth = << InitialPreset(flash) >>
    /\ wire = << >>
    /\ sent = << >>
    /\ last = [kind |-> "init", data |-> << >>, removed |-> {}]
    /\ io = << >>
    /\ press_order = << >>
    /\ add_order = << >>
    /\ deferred = {}
    /\ broadcast = << >>
    /\ core1_pc = "check"
    /\ new_preset = << >>
    /\ stats_left = 0
    /\ buffer = << >>
    /\ frame_index = 0
    /\ audio_channel = << >>
    /\ status_channel = 0
    /\ received = << >>
    /\ pending_stores = << >>
    /\ stored = [f \in DOMAIN MidiControl_new |-> {MidiControl_new[f], midi_control[f]}]
    /\ block_pc = "target_freq"
    /\ block_loads = NothingLoaded
    /\ gate_calls = "none"
    /\ reset_since = FALSE
    /\ taken = << >>

\* Storage::init is not under study: the flash it found is the flash it left
BootIdle == st_before = flash /\ st_after = << flash >>

\* the host has recorded nothing
TapeIdle == tape = << >>

\* a MoogOscillatorSection with every source off
MixIdle ==
    /\ mix = MoogOscillatorSection_new(<< 0, 0, 0, 0 >>)
    /\ mix_out = << >>
    /\ mix_blocks = 0

\* main_task before its loop: no block yet, nothing sent
UsbIdle ==
    /\ dsp_buffer = << >>
    /\ dsp_buffer_idx = BLOCK_SIZE
    /\ usb_frames_collected = 0
    /\ usb_audio_bytes = << >>
    /\ usb_packets = << >>

ExtrasIdle == TapeIdle /\ MixIdle /\ UsbIdle

\* the rest of the state that InitDevice leaves open, at rest
UnitsIdle == BootIdle /\ command_channel = 0 /\ OscNew("Sine") /\ RevNew /\ ExtrasIdle

Init ==
    /\ InitDevice
    /\ nib_byte = 0
    /\ nib_pair = << >>
    /\ nib_back = << >>
    /\ UnitsIdle

---------------------------------------------------------------------------
(* midi_task: the packets of one read *)

\* the body of `for packet in data.chunks(4)`
PacketStep(st, packet) ==
    IF Len(packet) < 4 THEN st
    ELSE
    LET cin == packet[1] % 16
        acc == IF cin = 4 THEN SysexContinue(st.buf, st.idx, st.insx, packet)
               ELSE IF cin \in {5, 6, 7} THEN SysexEnd(st.buf, st.idx, st.insx, packet)
               ELSE << st.buf, st.idx, st.insx >>
        st1 == [st EXCEPT !.buf = acc[1], !.idx = acc[2], !.insx = acc[3],
                          !.hist = History(st.hist, st.notes.sustain_active, packet)]
    IN  IF cin = 4 THEN st1
        ELSE IF cin \in {5, 6, 7}
        THEN IF SysexEndAccepted(st.buf, st.idx, st.insx, cin)
             THEN SysexDispatch(st1, SubSeq(acc[1], 1, acc[2]))
             ELSE st1
        ELSE ChannelMessage(st1, packet[2], packet[3], packet[4])

\* the preset of the last try_send among ops, before if there is none
LastBroadcast(ops, before) ==
    LET sends == SelectSeq(ops, LAMBDA o : o.op = "try_send")
    IN  IF sends = << >> THEN before ELSE << Last(sends).data >>

\* a read loop that gives up the whole read when one of its chunks is short
RECURSIVE ReadLoop_dropping_read(_, _)
ReadLoop_dropping_read(st, data) ==
    IF data = << >> \/ \E i \in 1..Len(data) : Len(data[i]) < 4 THEN st
    ELSE ReadLoop_dropping_read(PacketStep(st, Head(data)), Tail(data))

RECURSIVE ReadLoop(_, _)
ReadLoop(st, data) ==
    IF data = << >> THEN st ELSE ReadLoop(PacketStep(st, Head(data)), Tail(data))

\* Either::First(Ok(n)): data holds the chunks of the n bytes read
MidiTaskRead(data) ==
    LET st == [notes |-> notes, mc |-> midi_control, index |-> current_preset_index,
               flash |-> flash, chan |-> preset_channel, io |-> << >>,
               buf |-> sysex_buf, idx |-> sysex_idx, insx |-> in_sysex,
               hist |-> [press_order |-> press_order, add_order |-> add_order,
                         deferred |-> deferred]]
    IN  \E out \in {ReadLoop(st, data)} :
        /\ sysex_buf' = out.buf
        /\ sysex_idx' = out.idx
        /\ in_sysex' = out.insx
        /\ notes' = out.notes
        /\ midi_control' = out.mc
        /\ current_preset_index' = out.index
        /\ flash' = out.flash
        /\ preset_channel' = out.chan
        /\ io' = out.io
        /\ press_order' = out.hist.press_order
        /\ add_order' = out.hist.add_order
        /\ deferred' = out.hist.deferred
        /\ broadcast' = LastBroadcast(out.io, broadcast)
        /\ last' = [kind |-> "read", data |-> data,
                     removed |-> SeqSet(notes.notes) \ SeqSet(out.notes.notes)]

RecvNoteOn ==
    \E n \in NoteNumbers, v \in Velocities :
        /\ MidiTaskRead(<< << 9, NOTE_ON, n, v >> >>)
        /\ UNCHANGED << synth, wire, sent, nibVars, audioVars, bridgeVars, unitVars >>

RecvNoteOff ==
    \E n \in NoteNumbers :
        /\ MidiTaskRead(<< << 8, NOTE_OFF, n, 64 >> >>)
        /\ UNCHANGED << synth, wire, sent, nibVars, audioVars, bridgeVars, unitVars >>

RecvSustain ==
    \E v \in SustainValues :
        /\ MidiTaskRead(<< << 11, CONTROL_CHANGE, CC_SUSTAIN, v >> >>)
        /\ UNCHANGED << synth, wire, sent, nibVars, audioVars, bridgeVars, unitVars >>

RecvAllOff ==
    \E cc \in {CC_ALL_SOUND_OFF, CC_ALL_NOTES_OFF} :
        /\ MidiTaskRead(<< << 11, CONTROL_CHANGE, cc, 0 >> >>)
        /\ UNCHANGED << synth, wire, sent, nibVars, audioVars, bridgeVars, unitVars >>

RecvParamChange ==
    \E cc \in ParamControllers, v \in ParamValues :
        /\ MidiTaskRead(<< << 11, CONTROL_CHANGE, cc, v >> >>)
        /\ UNCHANGED << synth, wire, sent, nibVars, audioVars, bridgeVars, unitVars >>

RecvPitchBend ==
    \E b \in BendValues :
        /\ MidiTaskRead(<< << 14, PITCH_BEND, b[1], b[2] >> >>)
        /\ UNCHANGED << synth, wire, sent, nibVars, audioVars, bridgeVars, unitVars >>

RecvProgramChange ==
    \E i \in ProgramNumbers :
        /\ MidiTaskRead(<< << 12, PROGRAM_CHANGE, i, 0 >> >>)
        /\ UNCHANGED << synth, wire, sent, nibVars, audioVars, bridgeVars, unitVars >>

\* the host starts to send a SysEx message
HostStartSysex ==
    /\ wire = << >>
    /\ \E msg \in HostMessages : wire' = HostPackets(msg) /\ sent' = msg
    /\ UNCHANGED << notes, midi_control, current_preset_index, sysex_buf, sysex_idx,
                    in_sysex, flash, preset_channel, synth, last, io, histVars, nibVars, audioVars, bridgeVars, unitVars >>

\* midi_task reads what the host has sent of the message in flight: full
\* reads of READ_BUF_LEN bytes, and the rest
RecvSysexRead ==
    /\ wire # << >>
    /\ LET n == IF Len(wire) < READ_BUF_LEN \div 4 THEN Len(wire) ELSE READ_BUF_LEN \div 4
       IN  /\ MidiTaskRead(SubSeq(wire, 1, n))
           /\ wire' = SubSeq(wire, n + 1, Len(wire))
    /\ UNCHANGED << synth, sent, nibVars, audioVars, bridgeVars, unitVars >>

\* midi_task: Either::Second(SystemCommand::ResetStorage)
ResetStorageCommand ==
    /\ flash' = format
    /\ io' = << FlashErase, FlashWrite(format) >>
    /\ last' = [kind |-> "command", data |-> << >>, removed |-> {}]
    /\ UNCHANGED << notes, midi_control, current_preset_index, sysex_buf, sysex_idx,
                    in_sysex, preset_channel, synth, wire, sent, histVars, nibVars, audioVars, bridgeVars, unitVars >>

\* core1_task at a block boundary with a preset pending:
\* PRESET_CHANNEL.try_receive(), the old voice graph is dropped and a new one
\* built.  (A block boundary with nothing pending changes none of the
\* variables.)
Core1Swap ==
    /\ core1_pc = "check"
    /\ preset_channel # << >>
    /\ midi_control' = set_portamento(midi_control, PresetPortamento(Head(preset_channel)))
    /\ synth' = << Head(preset_channel) >>
    /\ preset_channel' = Tail(preset_channel)
    /\ UNCHANGED << notes, current_preset_index, sysex_buf, sysex_idx, in_sysex,
                    flash, wire, sent, last, io, histVars, nibVars, audioVars, bridgeVars, unitVars >>

NextNotes == RecvNoteOn \/ RecvNoteOff \/ RecvSustain \/ RecvAllOff

NextStorage ==
    \/ RecvProgramChange
    \/ HostStartSysex
    \/ RecvSysexRead
    \/ ResetStorageCommand
    \/ Core1Swap

Next == NextNotes \/ RecvParamChange \/ RecvPitchBend \/ NextStorage

Spec == Init /\ [][Next]_vars

\* the note and pedal traffic alone
SpecNotes == Init /\ [][NextNotes]_vars

\* the preset and storage traffic alone
SpecStorage == Init /\ [][NextStorage]_vars

\* the host starts a SysEx message that is not for this device
HostStartStray ==
    /\ wire = << >>
    /\ \E msg \in StrayMessages : wire' = HostPackets(msg) /\ sent' = msg
    /\ UNCHANGED << notes, midi_control, current_preset_index, sysex_buf, sysex_idx,
                    in_sysex, flash, preset_channel, synth, last, io, histVars, nibVars, audioVars, bridgeVars, unitVars >>

\* Note On of one of two keys, at full velocity
ControlsNoteOn ==
    \E n \in {60, 62} :
        /\ MidiTaskRead(<< << 9, NOTE_ON, n, 100 >> >>)
        /\ UNCHANGED << synth, wire, sent, nibVars, audioVars, bridgeVars, unitVars >>

NextControls ==
    ControlsNoteOn \/ RecvAllOff \/ RecvParamChange \/ RecvPitchBend

\* the notes with the continuous controllers and the two all-off controllers
SpecControls == Init /\ [][NextControls]_vars

\* the last chunk of a read whose length is not a multiple of 4: the head
\* of a Note On, of a Control Change, of a SysEx start and of a SysEx end
ShortPackets == { << 9, NOTE_ON, 64 >>, << 11, CONTROL_CHANGE >>, << 4, 240, 125 >>, << 5 >> }

\* midi_task reads 1 to 7 bytes: nothing or one Note On, and a short chunk
RecvShortRead ==
    \E full \in {<< >>} \cup {<< << 9, NOTE_ON, n, 100 >> >> : n \in {60, 62}},
       short \in ShortPackets :
        /\ MidiTaskRead(full \o << short >>)
        /\ UNCHANGED << synth, wire, sent, nibVars, audioVars, bridgeVars, unitVars >>

\* banks with a valid header whose preset count is not the number of
\* presets the sector holds: 8 for a sector of 6, and 0
CrowdedBank ==
    BankImage(MAGIC, VERSION, NUM_DEFAULT_PRESETS + 3,
              get_default_presets \o << PresetRecord(50, 100, 20) >>)

EmptyBank == BankImage(MAGIC, VERSION, 0, << >>)

\* the host starts a Write Request with one of these banks
HostStartBank ==
    /\ wire = << >>
    /\ \E msg \in {WriteMessage(CrowdedBank), WriteMessage(EmptyBank)} :
           wire' = HostPackets(msg) /\ sent' = msg
    /\ UNCHANGED << notes, midi_control, current_preset_index, sysex_buf, sysex_idx,
                    in_sysex, flash, preset_channel, synth, last, io, histVars, nibVars, audioVars, bridgeVars, unitVars >>

\* Program Change with an index at and around the number of presets a
\* sector holds
RecvProgramChangeHigh ==
    \E i \in {0, NUM_DEFAULT_PRESETS, NUM_DEFAULT_PRESETS + 1, NUM_DEFAULT_PRESETS + 2, 127} :
        /\ MidiTaskRead(<< << 12, PROGRAM_CHANGE, i, 0 >> >>)
        /\ UNCHANGED << synth, wire, sent, nibVars, audioVars, bridgeVars, unitVars >>

NextBank == HostStartBank \/ RecvSysexRead \/ RecvProgramChangeHigh \/ Core1Swap

SpecBank == Init /\ [][NextBank]_vars

\* the bytes of the message a sequence of USB-MIDI packets carries
RECURSIVE PacketsMessage(_)
PacketsMessage(packets) ==
    IF packets = << >> THEN << >>
    ELSE LET packet == Head(packets)
             len == IF packet[1] = 5 THEN 1 ELSE IF packet[1] = 6 THEN 2 ELSE 3
         IN  SubSeq(packet, 2, 1 + len) \o PacketsMessage(Tail(packets))

\* the host asks for a dump, or writes another bank
HostStartRequest ==
    /\ wire = << >>
    /\ \E msg \in {SysexMessage(CMD_DUMP_REQ, << >>), WriteMessage(AltBank), WriteMessage(SmallBank)} :
           wire' = HostPackets(msg) /\ sent' = msg
    /\ UNCHANGED << notes, midi_control, current_preset_index, sysex_buf, sysex_idx,
                    in_sysex, flash, preset_channel, synth, last, io, histVars, nibVars, audioVars, bridgeVars, unitVars >>

\* the host keeps the packets the device has just answered a Dump Request with
HostRecordDump ==
    /\ Len(io) > 2
    /\ \A i \in 1..Len(io) : io[i].op = "usb"
    /\ tape' = << [packets |-> [i \in 1..Len(io) |-> io[i].data], image |-> flash] >>
    /\ tape' # tape
    /\ UNCHANGED << deviceVars, nibVars, bootVars, command_channel, dspVars, mixVars, usbVars >>

\* the host sends the recorded packets back as they are
HostFeedBack ==
    /\ wire = << >>
    /\ tape # << >>
    /\ wire' = tape[1].packets
    /\ sent' = PacketsMessage(tape[1].packets)
    /\ UNCHANGED << notes, midi_control, current_preset_index, sysex_buf, sysex_idx,
                    in_sysex, flash, preset_channel, synth, last, io, histVars, nibVars, audioVars, bridgeVars, unitVars >>

NextRoundTrip ==
    HostStartRequest \/ HostRecordDump \/ HostFeedBack \/ RecvSysexRead \/ RecvProgramChange

SpecRoundTrip == Init /\ [][NextRoundTrip]_vars

\* the levels a preset gives the sources: off, at the threshold, just
\* above it, half
MixLevels == {0, LEVEL_THRESHOLD, LEVEL_THRESHOLD + 1, 5000}

MixFrequencies == {1000, 7000}

InitMixer ==
    /\ InitDevice
    /\ nib_byte = 0
    /\ nib_pair = << >>
    /\ nib_back = << >>
    /\ BootIdle
    /\ command_channel = 0
    /\ OscNew("Sine")
    /\ RevNew
    /\ TapeIdle
    /\ UsbIdle
    /\ \E l1, l2, l3, ln \in MixLevels : mix = MoogOscillatorSection_new(<< l1, l2, l3, ln >>)
    /\ mix_out = << >>
    /\ mix_blocks = 0

\* one block of MoogOscillatorSection::process
MixProcess ==
    /\ mix_blocks < MaxMixBlocks
    /\ \E freq \in MixFrequencies :
        \E out \in {MoogOscillatorSection_process(mix, freq)} :
            /\ mix' = out[1]
            /\ mix_out' = out[2]
    /\ mix_blocks' = mix_blocks + 1
    /\ UNCHANGED << deviceVars, nibVars, bootVars, command_channel, dspVars, tape, usbVars >>

NextMixer == MixProcess

SpecMixer == InitMixer /\ [][NextMixer]_vars

\* short reads, with and without a SysEx message in flight
NextShort == RecvShortRead \/ HostStartSysex \/ RecvSysexRead

SpecShort == Init /\ [][NextShort]_vars

\* SysEx messages for this device and for others, with keys held
NextSysex == HostStartStray \/ HostStartSysex \/ RecvSysexRead \/ ControlsNoteOn

SpecSysex == Init /\ [][NextSysex]_vars

---------------------------------------------------------------------------
(* core1_task, step by step: every `.await` that can suspend is a step of
   its own.  Core1Swap above is the swap in one step, for the specifications
   in which the suspension points of the audio core play no role.  The
   try_send calls of the log macros of midi_task and Storage are left out. *)

\* the variables of the control side, which core1_task leaves alone
controlVars == << notes, current_preset_index, sysex_buf, sysex_idx, in_sysex, flash,
                  wire, sent, last, io, histVars, nibVars, bridgeVars, unitVars >>

\* log_status!: SYSTEM_STATUS_CHANNEL.send(msg).await returns when there is room
StatusSend ==
    /\ status_channel < STATUS_CHANNEL_CAP
    /\ status_channel' = status_channel + 1

\* loop top: if let Ok(new_preset) = PRESET_CHANNEL.try_receive()
Core1Check ==
    /\ core1_pc = "check"
    /\ IF preset_channel # << >>
       THEN /\ new_preset' = << Head(preset_channel) >>
            /\ preset_channel' = Tail(preset_channel)
            /\ core1_pc' = "log_switching"
       ELSE /\ core1_pc' = "process"
            /\ UNCHANGED << new_preset, preset_channel >>
    /\ UNCHANGED << controlVars, midi_control, synth, stats_left, buffer, frame_index,
                    audio_channel, status_channel, received >>

\* log_status!("Core 1: Switching Preset...")
Core1LogSwitching ==
    /\ core1_pc = "log_switching"
    /\ StatusSend
    /\ core1_pc' = "take"
    /\ UNCHANGED << controlVars, midi_control, preset_channel, synth, new_preset, stats_left,
                    buffer, frame_index, audio_channel, received >>

\* a take that leaves the old voice graph in place
Core1Take_keeping ==
    /\ core1_pc = "take"
    /\ core1_pc' = "stats_before"
    /\ stats_left' = PRINT_STATS_MESSAGES
    /\ UNCHANGED << controlVars, midi_control, preset_channel, synth, new_preset, buffer,
                    frame_index, audio_channel, status_channel, received >>

\* let _ = synth.take()
Core1Take ==
    /\ core1_pc = "take"
    /\ synth' = << >>
    /\ core1_pc' = "stats_before"
    /\ stats_left' = PRINT_STATS_MESSAGES
    /\ UNCHANGED << controlVars, midi_control, preset_channel, new_preset, buffer,
                    frame_index, audio_channel, status_channel, received >>

\* print_stats(stack_ptr).await: one of its log_status! sends
Core1PrintStats ==
    /\ core1_pc \in {"stats_before", "stats_after"}
    /\ StatusSend
    /\ stats_left' = stats_left - 1
    /\ core1_pc' = IF stats_left > 1 THEN core1_pc
                   ELSE IF core1_pc = "stats_before" THEN "set_portamento" ELSE "process"
    /\ UNCHANGED << controlVars, midi_control, preset_channel, synth, new_preset, buffer,
                    frame_index, audio_channel, received >>

\* midi_control.set_portamento(new_preset.portamento)
Core1SetPortamento ==
    /\ core1_pc = "set_portamento"
    /\ midi_control' = set_portamento(midi_control, PresetPortamento(new_preset[1]))
    /\ core1_pc' = "build"
    /\ UNCHANGED << controlVars, preset_channel, synth, new_preset, stats_left, buffer,
                    frame_index, audio_channel, status_channel, received >>

\* synth = Some(Box::new(build_synth(midi_control.clone(), new_preset)))
Core1Build ==
    /\ core1_pc = "build"
    /\ synth' = new_preset
    /\ new_preset' = << >>
    /\ core1_pc' = "log_switched"
    /\ UNCHANGED << controlVars, midi_control, preset_channel, stats_left, buffer,
                    frame_index, audio_channel, status_channel, received >>

\* log_status!("Core 1: Preset Switched.")
Core1LogSwitched ==
    /\ core1_pc = "log_switched"
    /\ StatusSend
    /\ core1_pc' = "stats_after"
    /\ stats_left' = PRINT_STATS_MESSAGES
    /\ UNCHANGED << controlVars, midi_control, preset_channel, synth, new_preset, buffer,
                    frame_index, audio_channel, received >>

\* s.process(&mut buffer, frame_index), or buffer.fill(0.0) without a synth:
\* the block, as the frame index it was made for
Core1Process ==
    /\ core1_pc = "process"
    /\ frame_index < MaxBlocks
    /\ buffer' = << frame_index >>
    /\ core1_pc' = "send"
    /\ UNCHANGED << controlVars, midi_control, preset_channel, synth, new_preset, stats_left,
                    frame_index, audio_channel, status_channel, received >>

\* a send that does not wait for room
Core1Send_unbounded ==
    /\ core1_pc = "send"
    /\ audio_channel' = Append(audio_channel, buffer[1])
    /\ frame_index' = frame_index + 1
    /\ core1_pc' = "check"
    /\ UNCHANGED << controlVars, midi_control, preset_channel, synth, new_preset, stats_left,
                    buffer, status_channel, received >>

\* AUDIO_CHANNEL.send(AudioData { buffer }).await returns when there is room;
\* frame_index = frame_index.wrapping_add(BLOCK_SIZE / 2)
Core1Send ==
    /\ core1_pc = "send"
    /\ Len(audio_channel) < AUDIO_CHANNEL_CAP
    /\ audio_channel' = Append(audio_channel, buffer[1])
    /\ frame_index' = frame_index + 1
    /\ core1_pc' = "check"
    /\ UNCHANGED << controlVars, midi_control, preset_channel, synth, new_preset, stats_left,
                    buffer, status_channel, received >>

\* main_task: let audio_data = AUDIO_CHANNEL.receive().await
Core0Receive ==
    /\ audio_channel # << >>
    /\ received' = Append(received, Head(audio_channel))
    /\ audio_channel' = Tail(audio_channel)
    /\ UNCHANGED << controlVars, midi_control, preset_channel, synth, core1_pc, new_preset,
                    stats_left, buffer, frame_index, status_channel >>

\* logger_task: SYSTEM_STATUS_CHANNEL.receive()
LoggerReceive ==
    /\ status_channel > 0
    /\ status_channel' = status_channel - 1
    /\ UNCHANGED << controlVars, midi_control, preset_channel, synth, core1_pc, new_preset,
                    stats_left, buffer, frame_index, audio_channel, received >>

Core1Step ==
    \/ Core1Check
    \/ Core1LogSwitching
    \/ Core1Take
    \/ Core1PrintStats
    \/ Core1SetPortamento
    \/ Core1Build
    \/ Core1LogSwitched
    \/ Core1Process
    \/ Core1Send

NextAudio == RecvProgramChange \/ Core1Step \/ Core0Receive \/ LoggerReceive

\* the audio pipeline, with Program Changes from the control side
SpecAudio == Init /\ [][NextAudio]_vars

---------------------------------------------------------------------------
(* MidiControl between the two cores: midi_task's handlers of Note On, Note
   Off and all-notes-off store field by field, and the loads of an audio
   block (MidiFreq::process, then MidiGate::process of the filter envelope
   and of the amplifier envelope) fall between any two stores. *)

BridgeNotes == {60, 62}

\* an atomic store that leaves a mix of the old and the new bits
BridgeStore_torn ==
    /\ Len(pending_stores) > 0
    /\ LET st == Head(pending_stores) IN
       /\ midi_control' = [midi_control EXCEPT ![st.field] =
                              IF st.field = "target_freq" THEN (@ + st.value) \div 2 ELSE st.value]
       /\ stored' = [stored EXCEPT ![st.field] = @ \cup {st.value}]
       /\ gate_calls' = gate_calls
       /\ reset_since' = reset_since
    /\ pending_stores' = Tail(pending_stores)
    /\ UNCHANGED << notes, protoVars, last, io, histVars, nibVars, audioVars, unitVars,
                    block_pc, block_loads, taken >>

\* NOTE_ON if d2 > 0: notes.note_on(d1); set_freq(freq); set_gate(true)
BridgeNoteOn ==
    \E n \in BridgeNotes :
        /\ Len(pending_stores) = 0
        /\ notes' = note_on(notes, n)
        /\ pending_stores' = set_freq_stores(midi_to_freq(n)) \o set_gate_stores(TRUE)
        /\ UNCHANGED << midi_control, protoVars, last, io, histVars, nibVars, audioVars, unitVars,
                        stored, block_pc, block_loads, gate_calls, reset_since, taken >>

\* NOTE_OFF: notes.note_off(d1); then the active note's frequency and
\* set_gate(true), or set_gate(false) without an active note
BridgeNoteOff ==
    \E n \in BridgeNotes :
        /\ Len(pending_stores) = 0
        /\ notes' = note_off(notes, n)
        /\ pending_stores' =
              IF active_note(notes') # << >>
              THEN set_freq_stores(midi_to_freq(active_note(notes')[1])) \o set_gate_stores(TRUE)
              ELSE set_gate_stores(FALSE)
        /\ UNCHANGED << midi_control, protoVars, last, io, histVars, nibVars, audioVars, unitVars,
                        stored, block_pc, block_loads, gate_calls, reset_since, taken >>

\* CC_ALL_SOUND_OFF | CC_ALL_NOTES_OFF: notes.clear(); midi_control.reset()
BridgeAllOff ==
    /\ Len(pending_stores) = 0
    /\ notes' = clear(notes)
    /\ pending_stores' = reset_stores
    /\ UNCHANGED << midi_control, protoVars, last, io, histVars, nibVars, audioVars, unitVars,
                    stored, block_pc, block_loads, gate_calls, reset_since, taken >>

\* the next store of the handler under way: xxx.store(value, Ordering::Relaxed)
BridgeStore ==
    /\ Len(pending_stores) > 0
    /\ LET st == Head(pending_stores) IN
       /\ midi_control' = [midi_control EXCEPT ![st.field] = st.value]
       /\ stored' = [stored EXCEPT ![st.field] = @ \cup {st.value}]
       /\ gate_calls' = IF st.call = "set_gate_false" /\ st.final
                        THEN (IF gate_calls = "none" \/ reset_since THEN "once" ELSE "many")
                        ELSE gate_calls
       /\ reset_since' = IF st.call = "set_gate_false" /\ st.final THEN FALSE
                         ELSE IF st.call = "reset" /\ st.field = "gate_reset"
                              THEN gate_calls # "none"
                              ELSE reset_since
    /\ pending_stores' = Tail(pending_stores)
    /\ UNCHANGED << notes, protoVars, last, io, histVars, nibVars, audioVars, unitVars,
                    block_pc, block_loads, taken >>

\* the order of the loads of one block
NextLoad(pc) ==
    CASE pc = "target_freq" -> "portamento_amount"
      [] pc = "portamento_amount" -> "pitch_bend"
      [] pc = "pitch_bend" -> "filter_gate"
      [] pc = "filter_gate" -> "filter_take"
      [] pc = "filter_take" -> "amp_gate"
      [] pc = "amp_gate" -> "amp_take"
      [] pc = "amp_take" -> "target_freq"

\* MidiFreq::process: get_target_freq, get_portamento_amount, get_pitch_bend,
\* the first of them starting the block; MidiGate::process: get_gate
BlockLoad ==
    /\ block_pc \in {"target_freq", "portamento_amount", "pitch_bend", "filter_gate", "amp_gate"}
    /\ LET field == IF block_pc \in {"filter_gate", "amp_gate"} THEN "gate" ELSE block_pc
           before == IF block_pc = "target_freq" THEN NothingLoaded ELSE block_loads
       IN  block_loads' = [before EXCEPT ![field] = << midi_control[field] >>]
    /\ block_pc' = NextLoad(block_pc)
    /\ UNCHANGED << notes, midi_control, protoVars, last, io, histVars, nibVars, audioVars, unitVars,
                    pending_stores, stored, gate_calls, reset_since, taken >>

\* MidiGate::process: take_gate_reset, gate_reset.swap(false)
BlockTake ==
    /\ block_pc \in {"filter_take", "amp_take"}
    /\ block_loads' = [block_loads EXCEPT !.gate_reset = << midi_control.gate_reset >>]
    /\ midi_control' = [midi_control EXCEPT !.gate_reset = FALSE]
    /\ stored' = [stored EXCEPT !.gate_reset = @ \cup {FALSE}]
    /\ taken' = << [result |-> midi_control.gate_reset, gate_calls |-> gate_calls,
                    reset_since |-> reset_since] >>
    /\ gate_calls' = "none"
    /\ reset_since' = FALSE
    /\ block_pc' = NextLoad(block_pc)
    /\ UNCHANGED << notes, protoVars, last, io, histVars, nibVars, audioVars, unitVars,
                    pending_stores >>

NextBridge ==
    BridgeNoteOn \/ BridgeNoteOff \/ BridgeAllOff \/ BridgeStore \/ BlockLoad \/ BlockTake

SpecBridge == Init /\ [][NextBridge]_vars

---------------------------------------------------------------------------
(* The storage-reset command, from the serial console to midi_task, with
   the SysEx traffic of the host *)

\* command_listener_task, line "reset":
\* let _ = COMMAND_CHANNEL.try_send(SystemCommand::ResetStorage)
CommandListenerReset ==
    /\ command_channel' = IF command_channel < COMMAND_CHANNEL_CAP
                          THEN command_channel + 1 ELSE command_channel
    /\ UNCHANGED << deviceVars, nibVars, extraVars, bootVars, dspVars >>

\* a command handler that formats nothing
MidiTaskCommand_idle ==
    /\ command_channel > 0
    /\ command_channel' = command_channel - 1
    /\ io' = << >>
    /\ last' = [kind |-> "command", data |-> << >>, removed |-> {}]
    /\ UNCHANGED << notes, midi_control, protoVars, histVars, nibVars, audioVars,
                    bridgeVars, bootVars, dspVars, extraVars >>

\* midi_task: Either::Second(cmd) of select(read_packet, COMMAND_CHANNEL.receive()),
\* SystemCommand::ResetStorage => storage.format().await
MidiTaskCommand ==
    /\ command_channel > 0
    /\ command_channel' = command_channel - 1
    /\ flash' = format
    /\ io' = << FlashErase, FlashWrite(format) >>
    /\ last' = [kind |-> "command", data |-> << >>, removed |-> {}]
    /\ UNCHANGED << notes, midi_control, current_preset_index, sysex_buf, sysex_idx,
                    in_sysex, preset_channel, synth, wire, sent, histVars, nibVars,
                    audioVars, bridgeVars, bootVars, dspVars, extraVars >>

\* the SysEx actions leave the command queue alone: it is in unitVars
NextCommand ==
    \/ CommandListenerReset
    \/ MidiTaskCommand
    \/ HostStartSysex
    \/ RecvSysexRead

\* midi_task's loop comes back to its select after every read, and the
\* command branch of the select completes when no packet is ready
SpecCommand == Init /\ [][NextCommand]_vars /\ WF_vars(MidiTaskCommand)

---------------------------------------------------------------------------
(* FastOscillator on its own *)

OscWaveforms == {"Sine", "Triangle", "Saw", "Square", "WhiteNoise"}

\* frequencies a sample can have, in Hz: both signs, below and above the
\* sample rate
OscFrequencies ==
    {-96000, -50000, -48000, -24000, -1000, 0, 1000, 7000, 24000, 47000, 48000, 50000, 96000}

InitOscillator ==
    /\ InitDevice
    /\ nib_byte = 0
    /\ nib_pair = << >>
    /\ nib_back = << >>
    /\ BootIdle
    /\ command_channel = 0
    /\ RevNew
    /\ ExtrasIdle
    /\ \E w \in OscWaveforms : OscNew(w)

\* one sample of FastOscillator::process: the phase-driven waveforms advance
\* the phase by the sample's frequency, WhiteNoise leaves it alone
OscSample ==
    \E freq \in OscFrequencies :
        /\ osc_phase' = IF osc_waveform = "WhiteNoise" THEN osc_phase
                        ELSE AdvancePhase(osc_phase, freq)
        /\ osc_phase' > -MaxCycles * PhaseUnits
        /\ osc_phase' < MaxCycles * PhaseUnits
        /\ UNCHANGED << deviceVars, nibVars, extraVars, bootVars, command_channel, revVars, osc_waveform >>

\* FastOscillator::reset
OscReset ==
    /\ osc_phase' = 0
    /\ UNCHANGED << deviceVars, nibVars, extraVars, bootVars, command_channel, revVars, osc_waveform >>

NextOscillator == OscSample \/ OscReset

SpecOscillator == InitOscillator /\ [][NextOscillator]_vars

---------------------------------------------------------------------------
(* Reverb on its own *)

\* the frames of the input: silence, both sides loud in both signs, one side
RevFrames == {<< 0, 0 >>, << 800, 800 >>, << -800, -800 >>, << 800, 0 >>}

MaxFrames == 5

InitReverb ==
    /\ InitDevice
    /\ nib_byte = 0
    /\ nib_pair = << >>
    /\ nib_back = << >>
    /\ BootIdle
    /\ command_channel = 0
    /\ OscNew("Sine")
    /\ RevNew
    /\ ExtrasIdle

\* one frame of Reverb::process
RevProcess ==
    \E frame \in RevFrames :
        /\ rev_frames < MaxFrames
        /\ \E out \in {Reverb_process(rev, frame)} :
              /\ rev' = out[1]
              /\ rev_out' = << out[2] >>
        /\ rev_frames' = rev_frames + 1
        /\ rev_hist' = [rev_hist EXCEPT !.now =
                           IF frame = << 0, 0 >> /\ rev_hist.now \in {"reset", "silent"}
                           THEN "silent"
                           ELSE IF frame = << 0, 0 >> /\ rev_hist.now = "new" THEN "new"
                           ELSE "sound"]
        /\ UNCHANGED << deviceVars, nibVars, extraVars, bootVars, command_channel, oscVars >>

\* Reverb::reset
RevReset ==
    /\ rev_hist.now # "reset"
    /\ rev' = Reverb_reset(rev)
    /\ rev_hist' = [now |-> "reset", cleared |-> rev # Reverb_new]
    /\ UNCHANGED << deviceVars, nibVars, extraVars, bootVars, command_channel, oscVars, rev_out, rev_frames >>

NextReverb == RevProcess \/ RevReset

SpecReverb == InitReverb /\ [][NextReverb]_vars

---------------------------------------------------------------------------
(* Storage::init on its own: the sector as the firmware finds it at power-up *)

\* erased flash
ErasedSector == [i \in 1..SECTOR_SIZE |-> 255]

\* sectors with right and wrong magics and versions, preset counts from 0
\* to 5 and two sets of records; erased flash
FoundSectors ==
    { BankImage(m, v, n, r) :
        m \in {MAGIC, MAGIC + 1, MAGIC + 256, 0},
        v \in {VERSION, VERSION - 1, VERSION + 1, 0},
        n \in 0..NUM_DEFAULT_PRESETS,
        r \in {get_default_presets,
               << PresetRecord(10, 200, 100), PresetRecord(20, 100, 40),
                  PresetRecord(30, 50, 60), PresetRecord(40, 25, 80),
                  PresetRecord(50, 2, 200) >>} }
    \cup {ErasedSector}

InitBoot ==
    /\ InitDevice
    /\ nib_byte = 0
    /\ nib_pair = << >>
    /\ nib_back = << >>
    /\ st_before \in FoundSectors
    /\ st_after = << >>
    /\ command_channel = 0
    /\ OscNew("Sine")
    /\ RevNew
    /\ ExtrasIdle

\* storage.init().await
StorageInit ==
    /\ st_after = << >>
    /\ st_after' = << init(st_before) >>
    /\ UNCHANGED << deviceVars, nibVars, extraVars, st_before, command_channel, dspVars >>

NextBoot == StorageInit

SpecBoot == InitBoot /\ [][NextBoot]_vars

---------------------------------------------------------------------------
(* The nibble codec on its own: every byte is encoded as the dump encodes it
   and decoded as the write handler decodes it *)

InitNibble ==
    /\ InitDevice
    /\ nib_byte \in 0..255
    /\ nib_pair = << >>
    /\ nib_back = << >>
    /\ UnitsIdle

EncodeByte ==
    /\ nib_pair = << >>
    /\ nib_pair' = NibbleEncode(<< nib_byte >>)
    /\ UNCHANGED << notes, midi_control, protoVars, last, io, histVars, nib_byte, nib_back, audioVars, bridgeVars, unitVars >>

DecodePair ==
    /\ nib_pair # << >>
    /\ nib_back = << >>
    /\ nib_back' = NibbleDecode(nib_pair, 1)
    /\ UNCHANGED << notes, midi_control, protoVars, last, io, histVars, nib_byte, nib_pair, audioVars, bridgeVars, unitVars >>

NextNibble == EncodeByte \/ DecodePair

SpecNibble == InitNibble /\ [][NextNibble]_vars

---------------------------------------------------------------------------
(* Properties of the NoteStack and the gate (SpecNotes) *)

TopOf(s) == IF s = << >> THEN << >> ELSE << Last(s) >>

\* the step taken last was a read of one packet with these first three bytes
LastWasPacket(cin, status, d1) ==
    /\ last.kind = "read"
    /\ Len(last.data) = 1
    /\ Len(last.data[1]) = 4
    /\ last.data[1][1] = cin
    /\ last.data[1][2] = status
    /\ last.data[1][3] = d1

LastWasNoteOn(n) == LastWasPacket(9, NOTE_ON, n) /\ last.data[1][4] > 0

LastWasNoteOff(n) ==
    \/ LastWasPacket(8, NOTE_OFF, n)
    \/ LastWasPacket(9, NOTE_ON, n) /\ last.data[1][4] = 0

LastWasSustain(on) ==
    /\ LastWasPacket(11, CONTROL_CHANGE, CC_SUSTAIN)
    /\ on = (last.data[1][4] >= 64)

\* the notes of order that are in held, in the order of order
Restrict(order, held) == SelectSeq(order, LAMBDA x : Contains(held, x))

\* C1 as stated: active_note() is the note whose Note On is the most recent
\* among the notes that were pressed and not released since, none when there
\* is no such note.
C1_ActiveIsLastPressed == active_note(notes) = TopOf(press_order)

\* C1, amended: active_note() is the un-released note that was added to held
\* last (a Note On adds its note when the note is not held already and held
\* has room), none when there is no such note, and every held note is a note
\* that was pressed and not released since.
C1_ActiveIsLastAdded ==
    /\ active_note(notes) = TopOf(add_order)
    /\ SeqSet(notes.notes) \subseteq SeqSet(press_order)

\* a held note was pressed again and is not the active note
C1_Witness ==
    /\ Len(add_order) >= 2
    /\ Last(press_order) # Last(add_order)
    /\ active_note(notes) = << Last(add_order) >>
    /\ \E n \in NoteNumbers : LastWasNoteOn(n) /\ Last(press_order) = n

\* C2 as stated: no note is in held and in pending-release at once.
C2_HeldPendingDisjoint ==
    SeqSet(notes.notes) \cap SeqSet(notes.pending_off) = {}

\* C2, amended: every pending-release note is in held as well, and after
\* note_off(n) with sustain active n is in pending-release exactly if it is
\* (still) in held.
C2_PendingStaysHeld ==
    /\ SeqSet(notes.pending_off) \subseteq SeqSet(notes.notes)
    /\ \A n \in NoteNumbers :
         LastWasNoteOff(n) /\ notes.sustain_active
            => (Contains(notes.pending_off, n) <=> Contains(notes.notes, n))

\* a held note was let go with the pedal down
C2_Witness ==
    \E n \in NoteNumbers :
        /\ LastWasNoteOff(n)
        /\ notes.sustain_active
        /\ Contains(notes.notes, n)
        /\ Contains(notes.pending_off, n)

\* C3: the gate is on exactly if the NoteStack holds a note.
C3_GateIffHeld == midi_control.gate <=> (notes.notes # << >>)

\* the pedal came up, took the last notes with it and the gate went off
C3_Witness ==
    /\ LastWasSustain(FALSE)
    /\ last.removed # {}
    /\ notes.notes = << >>
    /\ ~midi_control.gate

\* a step that is the read of Note Off for n, taken with sustain off while
\* n and at least one other note are held
ReleaseOfOne(n) ==
    /\ ~notes.sustain_active
    /\ Contains(notes.notes, n)
    /\ Len(notes.notes) >= 2
    /\ LastWasNoteOff(n)'

\* C4 as stated: after the release the gate is on, the active note is the
\* held note pressed most recently and the target frequency is its frequency.
C4_ReleaseFallsBackToLastPressed ==
    [][\A n \in NoteNumbers :
          ReleaseOfOne(n) =>
             /\ midi_control'.gate
             /\ active_note(notes') = TopOf(Restrict(press_order', notes'.notes))
             /\ midi_control'.target_freq = midi_to_freq(active_note(notes')[1])
      ]_vars

\* C4, amended: after the release the gate is on, the active note is the
\* held note added most recently (unchanged when another note than the active
\* one was released, the note added before it when the active one was), and
\* the target frequency is its frequency.
C4_ReleaseFallsBackToLastAdded ==
    [][\A n \in NoteNumbers :
          ReleaseOfOne(n) =>
             /\ midi_control'.gate
             /\ active_note(notes') = TopOf(Restrict(add_order', notes'.notes))
             /\ IF active_note(notes) = << n >>
                THEN active_note(notes') = << notes.notes[Len(notes.notes) - 1] >>
                ELSE active_note(notes') = active_note(notes)
             /\ midi_control'.target_freq = midi_to_freq(active_note(notes')[1])
      ]_vars

\* one of several held notes was released with sustain off, and a note stays
C4_Witness ==
    \E n \in NoteNumbers :
        /\ LastWasNoteOff(n)
        /\ last.removed = {n}
        /\ ~notes.sustain_active
        /\ Len(notes.notes) >= 2
        /\ midi_control.gate

\* C5: with sustain active, Note Off for a held note changes neither the gate
\* nor the active note; when sustain turns off, the notes let go during the
\* sustain leave held, pending-release is empty, and the gate is off exactly
\* if held is empty.
C5_SustainDefersRelease ==
    [][/\ \A n \in NoteNumbers :
             notes.sustain_active /\ Contains(notes.notes, n) /\ LastWasNoteOff(n)'
                => /\ midi_control'.gate = midi_control.gate
                   /\ active_note(notes') = active_note(notes)
       /\ LastWasSustain(FALSE)'
             => /\ \A n \in deferred \cup SeqSet(notes.pending_off) : ~Contains(notes'.notes, n)
                /\ \A n \in SeqSet(notes.notes) \ (deferred \cup SeqSet(notes.pending_off)) :
                       Contains(notes'.notes, n)
                /\ notes'.pending_off = << >>
                /\ ~midi_control'.gate <=> (notes'.notes = << >>)
      ]_vars

\* the pedal came up and released some notes, not all
C5_Witness ==
    /\ LastWasSustain(FALSE)
    /\ last.removed # {}
    /\ notes.notes # << >>
    /\ notes.pending_off = << >>
    /\ midi_control.gate

---------------------------------------------------------------------------
(* Properties of the SysEx write path and the storage (SpecStorage) *)

\* the host's view of the message it sent
IsWriteRequest(msg) ==
    /\ Len(msg) >= 5
    /\ SubSeq(msg, 1, 4) = << 240, 125, 1, 2 >>
    /\ msg[Len(msg)] = 247

Payload(msg) == SubSeq(msg, 5, Len(msg) - 1)

Decoded(msg) ==
    [i \in 1..(Len(Payload(msg)) \div 2) |->
        ((Payload(msg)[2 * i - 1] * 16) % 256) + (Payload(msg)[2 * i] % 16)]

GoodLength(msg) == Len(Payload(msg)) = 2 * SECTOR_SIZE

GoodHeader(image) ==
    SubSeq(image, 1, 8) = << 80, 83, 68, 80, 7, 0, 0, 0 >>

\* preset i of a bank image, if the bank has one
BankPreset(image, i) ==
    IF i < image[9] + 256 * image[10]
    THEN << SubSeq(image, HEADER_SIZE + i * PresetSize + 1, HEADER_SIZE + (i + 1) * PresetSize) >>
    ELSE << >>

\* a step of midi_task that reads the last packets of the host's message
MessageEnds == wire # << >> /\ wire' = << >>

BadLengthAnswer == << Usb(<< 4, 240, 125, 1 >>), Usb(<< 7, 4, 1, 247 >>) >>
BadMagicAnswer == << Usb(<< 4, 240, 125, 1 >>), Usb(<< 7, 4, 2, 247 >>) >>
SuccessAnswer == << Usb(<< 4, 240, 125, 1 >>), Usb(<< 6, 3, 247, 0 >>) >>

HasFlashOp(ops) == \E i \in 1..Len(ops) : ops[i].op \in {"flash_erase", "flash_write"}

\* C6: when a Write Request whose payload is not 2 * SECTOR_SIZE long has
\* been received, the answer is Write-Error 0x01 and storage, ControlBridge
\* and preset queue are as they were.
C6_BadLengthRejected ==
    [][MessageEnds /\ IsWriteRequest(sent) /\ ~GoodLength(sent)
          => /\ io' = BadLengthAnswer
             /\ flash' = flash
             /\ midi_control' = midi_control
             /\ preset_channel' = preset_channel
      ]_vars

\* C7: when a Write Request of the right length with another magic or
\* version has been received, the answer is Write-Error 0x02 and storage is
\* as it was, with no erase and no write.
C7_BadMagicRejected ==
    [][MessageEnds /\ IsWriteRequest(sent) /\ GoodLength(sent) /\ ~GoodHeader(Decoded(sent))
          => /\ io' = BadMagicAnswer
             /\ flash' = flash
      ]_vars

\* C8: when a Write Request of the right length with the right magic and
\* version has been received, storage is the decoded payload, Write-Success
\* follows the erase and the write, and if the bank has a preset at
\* current_preset_index the ControlBridge cutoff, resonance and portamento are
\* those of that preset and the preset is in the queue to the audio side.
C8_ValidWriteApplied ==
    [][MessageEnds /\ IsWriteRequest(sent) /\ GoodLength(sent) /\ GoodHeader(Decoded(sent))
          => /\ flash' = Decoded(sent)
             /\ Len(io') >= 4
             /\ SubSeq(io', 1, 4) = << FlashErase, FlashWrite(Decoded(sent)) >> \o SuccessAnswer
             /\ \A p \in SeqSet(BankPreset(Decoded(sent), current_preset_index)) :
                   /\ midi_control'.parameter_1 = cutoff_norm(p)
                   /\ midi_control'.parameter_2 = res_norm(p)
                   /\ midi_control'.portamento_amount = PresetPortamento(p)
                   /\ preset_channel' # << >>
                   /\ Last(preset_channel') = p
      ]_vars

\* C9: a step that changes storage, or erases or writes flash, is a format
\* or the receipt of a Write Request of the right length with the right magic
\* and version, which leaves storage equal to its decoded payload.
C9_StorageChangesOnlyOnValidWrite ==
    [][flash' # flash \/ (io' # io /\ HasFlashOp(io'))
          => \/ last'.kind = "command" /\ flash' = format
             \/ /\ MessageEnds
                /\ IsWriteRequest(sent)
                /\ GoodLength(sent)
                /\ GoodHeader(Decoded(sent))
                /\ flash' = Decoded(sent)
      ]_vars

\* a valid bank has been written over the factory bank
C9_Witness ==
    /\ wire = << >>
    /\ last.kind = "read"
    /\ sent = WriteMessage(AltBank)
    /\ flash = AltBank
    /\ flash # format
    /\ HasFlashOp(io)

\* the message bytes a USB-MIDI packet carries, by its CIN
PacketBytes(packet) ==
    IF packet[1] = 5 THEN << packet[2] >>
    ELSE IF packet[1] = 6 THEN << packet[2], packet[3] >>
    ELSE << packet[2], packet[3], packet[4] >>

\* the message a sequence of usb operations carries
RECURSIVE Reassemble(_)
Reassemble(ops) ==
    IF ops = << >> THEN << >> ELSE PacketBytes(Head(ops).data) \o Reassemble(Tail(ops))

\* high nibble, low nibble of every byte of a block, in order
NibblesOf(block) ==
    [i \in 1..(2 * Len(block)) |->
        IF i % 2 = 1 THEN block[(i + 1) \div 2] \div 16 ELSE block[i \div 2] % 16]

IsDumpRequest(msg) == msg = << 240, 125, 1, 1, 247 >>

\* C11: the answer to a Dump Request is one SysEx message in USB-MIDI
\* packets: every operation is a packet to the sender, every packet but the
\* last has CIN 0x4, the last has CIN 0x5 / 0x6 / 0x7 and ends with 0xF7, the
\* message is 0xF0, the IDs, the command byte, the two nibbles of every byte
\* of the storage block in order, and 0xF7, which appears nowhere else; every
\* byte between 0xF0 and 0xF7 is below 0x80.  A Dump Request that arrives
\* with no SysEx message pending is answered.
C11_DumpIsOneSysexMessage ==
    [][MessageEnds /\ IsDumpRequest(sent) /\ (io' # << >> \/ ~in_sysex)
          => LET msg == Reassemble(io')
                 n == Len(io')
             IN  /\ n >= 2
                 /\ \A i \in 1..n : io'[i].op = "usb" /\ Len(io'[i].data) = 4
                 /\ \A i \in 1..(n - 1) : io'[i].data[1] = 4
                 /\ io'[n].data[1] \in {5, 6, 7}
                 /\ msg = << 240, 125, 1, 2 >> \o NibblesOf(flash) \o << 247 >>
                 /\ Len(msg) = 2 * SECTOR_SIZE + 5
                 /\ \A i \in 2..(Len(msg) - 1) : msg[i] < 128
                 /\ \A i \in 1..(Len(msg) - 1) : msg[i] # 247
                 /\ flash' = flash
      ]_vars

\* a bank written by the host has been dumped
C11_Witness ==
    /\ wire = << >>
    /\ last.kind = "read"
    /\ IsDumpRequest(sent)
    /\ flash = AltBank
    /\ Len(io) = 2 + (2 * SECTOR_SIZE - 2) \div 3 + 1
    /\ io[Len(io)] = Usb(<< 5, 247, 0, 0 >>)

\* preset_count of the header of a bank image
PresetCount(image) == image[9] + 256 * image[10]

\* a step in which midi_task reads the one channel packet with these first
\* three bytes (the host starts no message, the audio core takes no preset)
ChannelRead(cin, status, d1) ==
    /\ LastWasPacket(cin, status, d1)'
    /\ wire' = wire
    /\ Len(preset_channel') >= Len(preset_channel)

\* C12: a Program Change to an index >= preset_count finds no preset
\* (load_preset returns none), sends nothing to the audio side and leaves
\* the ControlBridge, the preset queue, the voice graph and storage as
\* they were.
C12_ProgramChangeOutOfRangeIgnored ==
    [][\A d1 \in ProgramNumbers :
          ChannelRead(12, PROGRAM_CHANGE, d1) /\ d1 >= PresetCount(flash)
             => /\ load_preset(flash, d1) = << >>
                /\ io' = << >>
                /\ preset_channel' = preset_channel
                /\ midi_control' = midi_control
                /\ synth' = synth
                /\ flash' = flash
      ]_vars

\* Program Change 5 has been received with the factory bank of 5 presets stored
C12_Witness ==
    /\ LastWasPacket(12, PROGRAM_CHANGE, 5)
    /\ PresetCount(flash) = 5
    /\ current_preset_index = 5
    /\ io = << >>

\* a step in which core1_task takes a preset out of PRESET_CHANNEL
PresetTaken == Len(preset_channel') < Len(preset_channel)

\* C13: the voice graph built when the audio core takes a preset is built
\* from the preset the control side broadcast last.
C13_LatestPresetWins ==
    [][PresetTaken => synth' = broadcast]_vars

\* C20: after a format the first 16 bytes of the storage are the magic
\* "PSDP", version 7, preset count 5 and reserved 0 (little-endian words),
\* load_preset(i) is factory preset i for i in 0..4 and nothing for every
\* program number from 5 on.
C20_FormatWritesFactoryBank ==
    last.kind = "command" =>
        /\ SubSeq(flash, 1, 16) = << 80, 83, 68, 80, 7, 0, 0, 0, 5, 0, 0, 0, 0, 0, 0, 0 >>
        /\ Len(get_default_presets) = 5
        /\ \A i \in 0..4 : load_preset(flash, i) = << get_default_presets[i + 1] >>
        /\ \A i \in 5..127 : load_preset(flash, i) = << >>

\* the storage was formatted after the host's write of another bank had
\* been read to its end and answered
C20_Witness ==
    /\ last.kind = "command"
    /\ sent = WriteMessage(AltBank)
    /\ wire = << >>
    /\ ~in_sysex
    /\ flash # AltBank
    /\ load_preset(flash, 4) = << get_default_presets[5] >>

\* C26: a Note On for a note that is not held, read while held is full,
\* leaves held, pending-release, the sustain flag and active_note() as they
\* were, and held never has more than NoteCapacity notes.
C26_FullStackDropsNoteOn ==
    /\ [](Len(notes.notes) <= NoteCapacity)
    /\ [][\A n \in NoteNumbers :
              /\ Len(notes.notes) = NoteCapacity
              /\ ~Contains(notes.notes, n)
              /\ LastWasNoteOn(n)'
              => notes' = notes /\ active_note(notes') = active_note(notes)
        ]_vars

\* a Note On for a further note was read with held full, pedal down and a
\* release pending
C26_Witness ==
    \E n \in NoteNumbers :
        /\ LastWasNoteOn(n)
        /\ Len(notes.notes) = NoteCapacity
        /\ ~Contains(notes.notes, n)
        /\ notes.sustain_active
        /\ notes.pending_off # << >>

\* C27: the preset the voice was built from has a resonance in [0.707, 10],
\* and the Q the filter reads back from parameter_2 after the preset was
\* applied is the preset's resonance (to the last digit kept).
C27_ResonanceRoundTrips ==
    \A i \in 1..Len(synth) :
        LET q == MidiFilterResonance(set_parameter_2(MidiControl_new, res_norm(synth[i])))
        IN  /\ PresetResonance(synth[i]) \in 707..10000
            /\ q - PresetResonance(synth[i]) \in -1..1

\* C28: in every state and for every note n, note_on(n) applied twice gives
\* the state note_on(n) applied once gives, and so does note_off(n), with
\* the pedal down or up.
C28_NoteOnOffIdempotent ==
    \A n \in NoteNumbers :
        /\ note_on(note_on(notes, n), n) = note_on(notes, n)
        /\ note_off(note_off(notes, n), n) = note_off(notes, n)

\* Note Off was read for a held note with the pedal down, and another held
\* note is not pending yet
C28_Witness ==
    \E n, m \in NoteNumbers :
        /\ LastWasNoteOff(n)
        /\ notes.sustain_active
        /\ Contains(notes.pending_off, n)
        /\ Contains(notes.notes, m)
        /\ ~Contains(notes.pending_off, m)
        /\ note_off(notes, m) # notes

\* a step in which midi_task reads packets of the SysEx message in flight
SysexReadStep == wire # << >> /\ Len(wire') < Len(wire)

\* the packets of that read
PacketsRead == SubSeq(wire, 1, Len(wire) - Len(wire'))

\* the framing as claimed, on << accumulated bytes, in-sysex >>: a packet
\* with CIN 4 appends its 3 bytes (to nothing, when it starts a message) and
\* leaves in-sysex; one with CIN 5, 6 or 7 appends 1, 2 or 3 bytes and
\* leaves idle
RECURSIVE ClaimedFraming(_, _)
ClaimedFraming(acc, packets) ==
    IF packets = << >> THEN acc
    ELSE LET packet == Head(packets)
             cin == packet[1] % 16
             bytes == IF acc[2] THEN acc[1] ELSE << >>
             next == IF cin = 4 THEN << bytes \o SubSeq(packet, 2, 4), TRUE >>
                     ELSE IF cin \in {5, 6, 7}
                     THEN << acc[1] \o SubSeq(packet, 2, cin - 3), FALSE >>
                     ELSE acc
         IN  ClaimedFraming(next, Tail(packets))

\* C25: after every read of SysEx packets the accumulated bytes and the
\* in-sysex flag are what the packets make of them one by one: CIN 4
\* appends 3 bytes and leaves in-sysex, CIN 5 / 6 / 7 appends 1 / 2 / 3
\* bytes and leaves idle.
C25_SysexFraming ==
    [][SysexReadStep =>
          << SubSeq(sysex_buf', 1, sysex_idx'), in_sysex' >>
              = ClaimedFraming(<< SubSeq(sysex_buf, 1, sysex_idx), in_sysex >>, PacketsRead)
      ]_vars

\* the read closed the message: the engine was in in-sysex when it came to
\* the last packet, and is idle now
MessageTerminated ==
    /\ MessageEnds
    /\ in_sysex \/ \E i \in 1..Len(PacketsRead) : PacketsRead[i][1] % 16 = 4
    /\ ~in_sysex'

\* a message that starts with 0xF0, carries the device's manufacturer and
\* model ID, has a command byte the device knows and ends with 0xF7
ForThisDevice(msg) ==
    /\ Len(msg) >= 5
    /\ msg[1] = 240
    /\ msg[2] = 125
    /\ msg[3] = 1
    /\ msg[4] \in {CMD_DUMP_REQ, CMD_WRITE_REQ}
    /\ msg[Len(msg)] = 247

\* C29: a read of SysEx packets answers the host, or changes storage, the
\* ControlBridge, the NoteStack or the preset queue, only if it closes a
\* message that starts with 0xF0, carries the device's IDs and a known
\* command and ends with 0xF7.
C29_OnlyAddressedSysexDispatched ==
    [][SysexReadStep
          /\ ~(MessageTerminated /\ ForThisDevice(SubSeq(sysex_buf', 1, sysex_idx')))
          => /\ io' = << >>
             /\ flash' = flash
             /\ midi_control' = midi_control
             /\ notes' = notes
             /\ preset_channel' = preset_channel
             /\ current_preset_index' = current_preset_index
      ]_vars

\* a message that is not for this device was closed and is what sysex_buf
\* holds, with a key held
C29_Witness ==
    /\ last.kind = "read"
    /\ wire = << >>
    /\ ~in_sysex
    /\ sent \in StrayMessages
    /\ SubSeq(sysex_buf, 1, sysex_idx) = sent
    /\ notes.notes # << >>
    /\ io = << >>

\* a step that is a read whose last chunk has less than 4 bytes
ShortReadStep ==
    /\ wire' = wire
    /\ last'.kind = "read"
    /\ last'.data # << >>
    /\ Len(Last(last'.data)) < 4

\* C30: a read that ends in a chunk of less than 4 bytes leaves the SysEx
\* accumulation state, storage and the preset queue alone; on its own it
\* leaves NoteStack and ControlBridge alone and answers nothing; after a
\* Note On in the same read the note is held and the gate is on.
C30_ShortPacketDiscarded ==
    [][ShortReadStep
          => /\ << sysex_buf', sysex_idx', in_sysex' >> = << sysex_buf, sysex_idx, in_sysex >>
             /\ flash' = flash
             /\ preset_channel' = preset_channel
             /\ current_preset_index' = current_preset_index
             /\ IF Len(last'.data) = 1
                THEN notes' = notes /\ midi_control' = midi_control /\ io' = << >>
                ELSE \E n \in NoteNumbers :
                        /\ last'.data[1] = << 9, NOTE_ON, n, 100 >>
                        /\ notes' = note_on(notes, n)
                        /\ Contains(notes'.notes, n)
                        /\ midi_control'.gate
      ]_vars

\* a Note On and the head of a SysEx end were read in the middle of a
\* SysEx message
C30_Witness ==
    /\ last.kind = "read"
    /\ Len(last.data) = 2
    /\ last.data[2] = << 5 >>
    /\ in_sysex
    /\ wire # << >>
    /\ notes.notes # << >>
    /\ midi_control.gate

\* NoteStack and ControlBridge as the packet loop holds them
NotesAndBridge == [notes |-> notes, mc |-> midi_control]

\* C32: in every state, pedal down or up, a Note On with velocity 0 leaves
\* NoteStack, gate and target frequency as a Note Off for the same note
\* does.
C32_NoteOnZeroIsNoteOff ==
    \A n \in NoteNumbers :
        ChannelMessage(NotesAndBridge, NOTE_ON, n, 0)
            = ChannelMessage(NotesAndBridge, NOTE_OFF, n, 64)

\* a Note On with velocity 0 was read for a held note with the pedal down,
\* with another note held and the gate on
C32_Witness ==
    \E n \in NoteNumbers :
        /\ LastWasPacket(9, NOTE_ON, n)
        /\ last.data[1][4] = 0
        /\ notes.sustain_active
        /\ Contains(notes.pending_off, n)
        /\ midi_control.gate
        /\ Len(notes.notes) >= 2

\* C33: whenever the gate is on, the target frequency is the frequency of
\* active_note().
C33_FrequencyFollowsActiveNote ==
    midi_control.gate =>
        /\ active_note(notes) # << >>
        /\ midi_control.target_freq = midi_to_freq(active_note(notes)[1])

\* C38: in every reachable NoteStack state held has no note twice and at
\* most NoteCapacity notes, every pending-release note is held, and nothing
\* is pending while the pedal is up.
C38_NoteStackWellFormed ==
    /\ \A i, j \in 1..Len(notes.notes) : notes.notes[i] = notes.notes[j] => i = j
    /\ Len(notes.notes) <= NoteCapacity
    /\ SeqSet(notes.pending_off) \subseteq SeqSet(notes.notes)
    /\ ~notes.sustain_active => notes.pending_off = << >>

\* the pedal came up and took deferred notes with it, others stay held
C38_Witness ==
    /\ LastWasSustain(FALSE)
    /\ last.removed # {}
    /\ notes.notes # << >>
    /\ notes.pending_off = << >>

---------------------------------------------------------------------------
(* The audio pipeline (SpecAudio) *)

\* core1_task is at an `.await` that cannot complete now
Core1Suspended ==
    \/ core1_pc = "send" /\ Len(audio_channel) >= AUDIO_CHANNEL_CAP
    \/ /\ core1_pc \in {"log_switching", "stats_before", "log_switched", "stats_after"}
       /\ status_channel >= STATUS_CHANNEL_CAP

\* C14: the audio core is suspended only at the hand-over of a completed
\* block to a full block queue, and at no other point of its loop.
C14_SuspendsOnlyOnFullBlockQueue ==
    Core1Suspended => core1_pc = "send" /\ Len(audio_channel) = AUDIO_CHANNEL_CAP

\* the blocks 0 .. n-1 in the order of their production
BlocksUpTo(n) == [i \in 1..n |-> i - 1]

\* C15: a pending preset is taken only at the top of the loop and the loop
\* comes back to its top only by sending a block, so at most one preset is
\* taken per block; the voice graph changes only in the take and the build
\* of a swap, never while a block is made or sent; the build finds no graph
\* and makes the graph of the preset taken; and the step before the build
\* stores that preset's portamento in the bridge.
C15_SwapAtBlockBoundary ==
    [][ /\ PresetTaken => core1_pc = "check" /\ new_preset' = << Head(preset_channel) >>
        /\ (core1_pc' = "check" /\ core1_pc # "check")
              => core1_pc = "send" /\ frame_index' = frame_index + 1
        /\ synth' # synth => core1_pc \in {"take", "build"}
        /\ (core1_pc = "take" /\ core1_pc' # "take") => synth' = << >>
        /\ (core1_pc = "build" /\ core1_pc' # "build")
              => synth = << >> /\ synth' = new_preset /\ synth' # << >>
        /\ (core1_pc' = "build" /\ core1_pc # "build")
              => /\ core1_pc = "set_portamento"
                 /\ midi_control'.portamento_amount = PresetPortamento(new_preset[1])
        /\ core1_pc \in {"process", "send"} => synth # << >>
      ]_vars

\* a swap to another preset than the initial one is complete and two blocks
\* have been made since the start
C15_Witness ==
    /\ core1_pc = "send"
    /\ synth # << InitialPreset(flash) >>
    /\ synth # << >>
    /\ frame_index = 1
    /\ buffer = << 1 >>

---------------------------------------------------------------------------
(* MidiControl between the two cores (SpecBridge) *)

\* C17, as claimed: gate_reset is set exactly when a set_gate(false) has
\* been made since the last take_gate_reset, and a take returns true
\* exactly then.
C17_OneTakePerRelease ==
    /\ midi_control.gate_reset = (gate_calls # "none")
    /\ taken # << >> => taken[1].result = (taken[1].gate_calls # "none")

\* C17, amended: gate_reset is set exactly when a set_gate(false) has been
\* made since the last take_gate_reset and no reset() since the last such
\* set_gate(false); a take returns true exactly then and clears the flag,
\* so the next take returns false; set_gate(true) does not change the flag
\* and several set_gate(false) make one true take.
C17_OneTakePerReleaseUnlessReset ==
    /\ midi_control.gate_reset = (gate_calls # "none" /\ ~reset_since)
    /\ taken # << >> =>
          taken[1].result = (taken[1].gate_calls # "none" /\ ~taken[1].reset_since)

\* a take returned true after several set_gate(false), and the flag is
\* clear for the next take although the gate is still off
C17_Witness ==
    /\ taken = << [result |-> TRUE, gate_calls |-> "many", reset_since |-> FALSE] >>
    /\ gate_calls = "none"
    /\ ~midi_control.gate_reset
    /\ ~midi_control.gate
    /\ block_pc = "amp_gate"

\* C18: every value an audio block loaded from a field of MidiControl is
\* the field's initial value or a value stored to that field before.
C18_LoadsReturnStoredValues ==
    \A f \in DOMAIN block_loads :
        block_loads[f] # << >> => block_loads[f][1] \in stored[f]

\* one Note On (60) has been handled since the start, and the audio block
\* under way loaded the frequency before its store and the gate after
C18_Witness ==
    /\ notes.notes = << 60 >>
    /\ Len(pending_stores) = 0
    /\ stored.target_freq = {MidiControl_new.target_freq, midi_to_freq(60)}
    /\ block_loads.target_freq = << MidiControl_new.target_freq >>
    /\ block_loads.gate = << TRUE >>
    /\ midi_control.target_freq = midi_to_freq(60)
    /\ midi_to_freq(60) # MidiControl_new.target_freq
    /\ block_pc = "filter_take"

---------------------------------------------------------------------------
(* The controllers (SpecControls) *)

\* the step is midi_task's handling of Control Change 120 or 123
AllOffHandled ==
    (LastWasPacket(11, CONTROL_CHANGE, CC_ALL_SOUND_OFF)
        \/ LastWasPacket(11, CONTROL_CHANGE, CC_ALL_NOTES_OFF))'

\* C19, as claimed: Control Change 120 or 123 leaves the NoteStack empty
\* with sustain off and every field of MidiControl at its value of
\* construction.
C19_AllOffRestoresConstruction ==
    [][AllOffHandled => notes' = NoteStack_new /\ midi_control' = MidiControl_new]_vars

\* C19, amended: Control Change 120 or 123 leaves the NoteStack empty with
\* sustain off, the gate and gate_reset off, the pitch bend at 1.0 and the
\* mod wheel at 0, and leaves the target frequency, the portamento and both
\* filter parameters as they were.
C19_AllOffResetsGateBendWheel ==
    [][AllOffHandled =>
          /\ notes' = NoteStack_new
          /\ midi_control'.gate = FALSE
          /\ midi_control'.gate_reset = FALSE
          /\ midi_control'.pitch_bend = 1000000
          /\ midi_control'.mod_wheel = 0
          /\ midi_control'.target_freq = midi_control.target_freq
          /\ midi_control'.portamento_amount = midi_control.portamento_amount
          /\ midi_control'.parameter_1 = midi_control.parameter_1
          /\ midi_control'.parameter_2 = midi_control.parameter_2
    ]_vars

\* all-notes-off has been handled after a Note On and changes of cutoff,
\* resonance and portamento: the stack is empty, the gate is off, and the
\* frequency and the three parameters are not those of construction
C19_Witness ==
    /\ LastWasPacket(11, CONTROL_CHANGE, CC_ALL_NOTES_OFF)
    /\ notes = NoteStack_new
    /\ ~midi_control.gate
    /\ midi_control.pitch_bend = MidiControl_new.pitch_bend
    /\ midi_control.target_freq = midi_to_freq(62)
    /\ midi_control.target_freq # MidiControl_new.target_freq
    /\ midi_control.portamento_amount # MidiControl_new.portamento_amount
    /\ midi_control.parameter_1 # MidiControl_new.parameter_1
    /\ midi_control.parameter_2 # MidiControl_new.parameter_2

---------------------------------------------------------------------------
(* FastOscillator (SpecOscillator) *)

\* C23: with a phase-driven waveform the phase is at least 0 and below 1
\* after every sample, whatever the frequencies of the samples.
C23_PhaseInUnitInterval ==
    osc_waveform # "WhiteNoise" => 0 <= osc_phase /\ osc_phase < PhaseUnits

---------------------------------------------------------------------------
(* Reverb (SpecReverb) *)

\* every sample of the line is zero and its position is 0
LineClear(d) == d.pos = 0 /\ \A i \in 1..Len(d.buffer) : d.buffer[i] = 0

\* every sample of the line is zero
LineSilent(d) == \A i \in 1..Len(d.buffer) : d.buffer[i] = 0

\* C24: right after Reverb::reset every sample of every comb and allpass
\* delay line is zero, every position is 0 and every comb filter state is
\* zero; and while only silent frames have been processed since the reset,
\* every frame put out is silent and the lines and filter states stay zero.
C24_ResetLeavesNoTail ==
    /\ rev_hist.now = "reset" =>
          /\ LineClear(rev.comb_l.delay) /\ LineClear(rev.comb_r.delay)
          /\ LineClear(rev.allpass_l.delay) /\ LineClear(rev.allpass_r.delay)
          /\ rev.comb_l.filter_state = 0 /\ rev.comb_r.filter_state = 0
    /\ rev_hist.now = "silent" =>
          /\ rev_out = << << 0, 0 >> >>
          /\ LineSilent(rev.comb_l.delay) /\ LineSilent(rev.comb_r.delay)
          /\ LineSilent(rev.allpass_l.delay) /\ LineSilent(rev.allpass_r.delay)
          /\ rev.comb_l.filter_state = 0 /\ rev.comb_r.filter_state = 0

\* a reverb with sound in its lines was reset and has processed a silent
\* frame since
C24_Witness ==
    /\ rev_hist = [now |-> "silent", cleared |-> TRUE]
    /\ rev_frames >= 3
    /\ rev_out = << << 0, 0 >> >>

---------------------------------------------------------------------------
(* The storage-reset command (SpecCommand) *)

\* midi_task takes a command out of COMMAND_CHANNEL
CommandHandled == command_channel' < command_channel

---------------------------------------------------------------------------
(* Storage::init (SpecBoot) *)

\* C21: init leaves a sector whose first 8 bytes are the magic "PSDP" and
\* version 7 as it found it, and leaves the formatted factory bank in place
\* of any other sector.
C21_InitFormatsUnlessMagicAndVersion ==
    st_after # << >> =>
        IF GoodHeader(st_before) THEN st_after = << st_before >> ELSE st_after = << format >>

\* a bank with the right magic and the version before was found and replaced
\* by the factory bank
C21_Witness ==
    /\ st_before = BadVersionBank
    /\ st_after = << format >>
    /\ st_before # format

---------------------------------------------------------------------------
(* The nibble codec (SpecNibble) *)

\* C10: the decoding of the two nibbles of a byte is the byte, and both
\* nibbles are below 0x80.
C10_NibbleRoundTrip ==
    /\ nib_pair # << >> => Len(nib_pair) = 2 /\ nib_pair[1] < 128 /\ nib_pair[2] < 128
    /\ nib_back # << >> => nib_back = << nib_byte >>

\* a byte with both nibbles set went through the codec
C10_Witness == nib_byte = 165 /\ nib_pair = << 10, 5 >> /\ nib_back = << 165 >>

---------------------------------------------------------------------------
(* Presets and the bank (SpecStorage) *)

\* C34: a Program Change whose preset does not load leaves the current
\* preset index as it was.
C34_FailedProgramChangeKeepsIndex ==
    [][\A d1 \in ProgramNumbers :
          /\ LastWasPacket(12, PROGRAM_CHANGE, d1)'
          /\ wire' = wire
          /\ load_preset(flash, d1) = << >>
          => current_preset_index' = current_preset_index
      ]_vars

\* C35: every preset load_preset returns lies inside the persisted bank,
\* 16 + (index + 1) * preset_size <= SECTOR_SIZE, for every bank in storage
\* and every index of a Program Change.
C35_LoadedPresetInsideBank ==
    \A index \in 0..127 :
        load_preset(flash, index) # << >>
            => HEADER_SIZE + (index + 1) * PresetSize <= SECTOR_SIZE

\* C36: when the packets of a dump have been fed back, storage is the bank
\* that was dumped, byte for byte, and the device has erased, written and
\* answered Write-Success.
C36_DumpWriteRoundTrip ==
    [][/\ MessageEnds
       /\ tape # << >>
       /\ wire = SubSeq(tape[1].packets, Len(tape[1].packets) - Len(wire) + 1,
                        Len(tape[1].packets))
       /\ sent = PacketsMessage(tape[1].packets)
       => /\ flash' = tape[1].image
          /\ Len(io') >= 4
          /\ SubSeq(io', 1, 4) = << FlashErase, FlashWrite(tape[1].image) >> \o SuccessAnswer
      ]_vars

\* the dump of a bank that is not the factory bank was fed back and written
C36_Witness ==
    /\ tape # << >>
    /\ tape[1].image = AltBank
    /\ sent = PacketsMessage(tape[1].packets)
    /\ wire = << >>
    /\ last.kind = "read"
    /\ flash = AltBank
    /\ Len(io) >= 4
    /\ io[2] = FlashWrite(AltBank)

\* C39: the accumulation index never exceeds the buffer length, and the
\* device answers every message for it that fits the buffer (a Dump Request
\* with the dump, a Write Request with Write-Success or Write-Error) when the
\* message ends, whatever was received before.
C39_AddressedSysexAlwaysDispatched ==
    /\ [](sysex_idx <= SYSEX_BUF_LEN)
    /\ [][MessageEnds /\ ForThisDevice(sent) /\ Len(sent) <= SYSEX_BUF_LEN => io' # << >>]_vars

---------------------------------------------------------------------------
(* The gate of the two envelopes (SpecBridge) *)

\* C37: in every block the MidiGate of the amplitude envelope puts out the
\* signal the MidiGate of the filter envelope has put out: it loads the same
\* gate, and where the gate is on it takes the same gate reset.
C37_EnvelopesGetSameGate ==
    [][/\ block_pc = "amp_gate" /\ block_pc' = "amp_take"
          => block_loads'.gate = block_loads.gate
       /\ block_pc = "amp_take" /\ block_pc' = "target_freq"
          => \/ block_loads'.gate_reset = block_loads.gate_reset
             \/ block_loads.gate = << FALSE >>
      ]_vars

---------------------------------------------------------------------------
(* MoogOscillatorSection (SpecMixer) *)

\* a source at a level of 0.0001 or less
Muted(i) == mix.level[i] <= 1

\* the state of source i: the phase of an oscillator, the rng of the noise
SourceState(m, i) == IF i = 4 THEN m.rng_state ELSE m.phase[i]

\* sample k of source i in the block of this step, from the state the source
\* had before and the frequency in its freq_buffer after
RECURSIVE PhaseAfter(_, _, _)
PhaseAfter(phase, freq, k) ==
    IF k = 0 THEN phase ELSE PhaseAfter(AdvancePhase(phase, freq), freq, k - 1)

RECURSIVE RandomAfter(_, _)
RandomAfter(rng_state, k) ==
    IF k = 0 THEN rng_state ELSE RandomAfter(NextRandom(rng_state), k - 1)

SourceSample(i, k) ==
    IF i = 4 THEN RandomValue(RandomAfter(mix.rng_state, k))
    ELSE Triangle(PhaseAfter(mix.phase[i], mix'.freq_buffer[i], k))

\* what source i adds to sample k: nothing when it is muted
Contribution(i, k) == IF Muted(i) THEN 0 ELSE SourceSample(i, k) * mix.level[i]

\* C31 as stated: a muted source does not advance, and with the primary
\* oscillator muted the block is silence.
C31_MutedPrimarySilencesBlock ==
    [][mix_blocks' = mix_blocks + 1
          => /\ \A i \in 1..4 : Muted(i) => SourceState(mix', i) = SourceState(mix, i)
             /\ Muted(1) => \A k \in 1..Len(mix_out') : mix_out'[k] = 0
      ]_vars

\* C31, amended: a muted source does not advance and adds nothing to the
\* block, which is the sum of the unmuted sources; with the primary
\* oscillator muted the block is the mix of the other sources, silence only
\* if they are muted as well.
C31_MutedSourceSkipped ==
    [][mix_blocks' = mix_blocks + 1
          => /\ \A i \in 1..4 : Muted(i) => SourceState(mix', i) = SourceState(mix, i)
             /\ Len(mix_out') = MixBlockLen
             /\ \A k \in 1..MixBlockLen :
                   mix_out'[k] = Contribution(1, k) + Contribution(2, k)
                                 + Contribution(3, k) + Contribution(4, k)
      ]_vars

\* a block was mixed with the primary oscillator at the threshold level and
\* another oscillator just above it, and is not silence
C31_Witness ==
    /\ mix_blocks >= 2
    /\ mix.level[1] = 1
    /\ mix.level[2] = 2
    /\ mix.level[4] = 0
    /\ mix.phase[1] = 0
    /\ mix.phase[2] # 0
    /\ mix.rng_state = 12345
    /\ \E k \in 1..Len(mix_out) : mix_out[k] # 0

---------------------------------------------------------------------------
(* main_task: from audio blocks to USB packets (SpecTransport) *)

\* the audio core stops after this many blocks
MaxTxBlocks == 3

\* the blocks the audio core can make
BlockIds == {0, 1, 2}

\* sample i of block id, in thousandths: neighbours differ, and some samples
\* lie outside [-1.0, 1.0]
BlockSample(id, i) == ((id * 401 + i * 97) % 2203) - 1101

\* AudioData { buffer }
BlockSamples(id) == [i \in 1..BLOCK_SIZE |-> BlockSample(id, i)]

\* (sample.clamp(-1.0, 1.0) * 32767.0) as i16: the cast truncates towards zero
SampleToI16(s) ==
    LET c == IF s < -1000 THEN -1000 ELSE IF s > 1000 THEN 1000 ELSE s
    IN  IF c >= 0 THEN (c * 32767) \div 1000 ELSE 0 - (((0 - c) * 32767) \div 1000)

\* i16::to_le_bytes
ToLeBytes(v) == LET u == (v + 65536) % 65536 IN << u % 256, u \div 256 >>

\* what main_task's loop leaves alone
transportRest == << notes, midi_control, protoVars, last, io, histVars, nibVars,
                    core1_pc, new_preset, stats_left, buffer, frame_index, status_channel,
                    bridgeVars, bootVars, command_channel, dspVars, tape, mixVars >>

\* the audio core: AUDIO_CHANNEL.send(AudioData { buffer }).await
Core1SendBlock ==
    /\ Len(audio_channel) < AUDIO_CHANNEL_CAP
    /\ Len(received) + Len(audio_channel) < MaxTxBlocks
    /\ \E id \in BlockIds : audio_channel' = Append(audio_channel, id)
    /\ UNCHANGED << transportRest, received, usbVars >>

\* available_frames.min(needed_frames)
FramesToCopy(idx, collected) ==
    LET available_floats == BLOCK_SIZE - idx
        available_frames == available_floats \div 2
        needed_frames == USB_PACKET_FRAMES - collected
    IN  IF available_frames < needed_frames THEN available_frames ELSE needed_frames

\* the bytes of the first n frames of the samples not sent yet: for each
\* frame the left sample, then the right one, two bytes each
CopyFrames(samples, n) ==
    [k \in 1..(4 * n) |->
        LET slot == (k - 1) \div 4
            part == (k - 1) % 4
        IN  ToLeBytes(SampleToI16(samples[2 * slot + (part \div 2) + 1]))[(part % 2) + 1]]

\* one turn of `while usb_frames_collected < 48`: a new block when the last
\* one is used up (the task waits for it), then the frames that fit
MainTaskCollect ==
    /\ usb_frames_collected < USB_PACKET_FRAMES
    /\ dsp_buffer_idx >= BLOCK_SIZE => audio_channel # << >>
    /\ LET fresh == dsp_buffer_idx >= BLOCK_SIZE
           samples == IF fresh THEN BlockSamples(Head(audio_channel)) ELSE dsp_buffer
           idx == IF fresh THEN 0 ELSE dsp_buffer_idx
           frames_to_copy == FramesToCopy(idx, usb_frames_collected)
       IN  /\ dsp_buffer' = SubSeq(samples, 2 * frames_to_copy + 1, Len(samples))
           /\ audio_channel' = IF fresh THEN Tail(audio_channel) ELSE audio_channel
           /\ received' = IF fresh THEN Append(received, Head(audio_channel)) ELSE received
           /\ usb_audio_bytes' = usb_audio_bytes \o CopyFrames(samples, frames_to_copy)
           /\ dsp_buffer_idx' = idx + 2 * frames_to_copy
           /\ usb_frames_collected' = usb_frames_collected + frames_to_copy
    /\ UNCHANGED << transportRest, usb_packets >>

\* a consumer that starts every packet with a new block
MainTaskWritePacket_dropping_rest ==
    /\ usb_frames_collected >= USB_PACKET_FRAMES
    /\ usb_packets' = Append(usb_packets, usb_audio_bytes)
    /\ usb_frames_collected' = 0
    /\ usb_audio_bytes' = << >>
    /\ dsp_buffer_idx' = BLOCK_SIZE
    /\ dsp_buffer' = << >>
    /\ UNCHANGED << transportRest, audio_channel, received >>

\* microphone.write_packet(&usb_audio_bytes).await, and the head of the next
\* turn of the outer loop
MainTaskWritePacket ==
    /\ usb_frames_collected >= USB_PACKET_FRAMES
    /\ usb_packets' = Append(usb_packets, usb_audio_bytes)
    /\ usb_frames_collected' = 0
    /\ usb_audio_bytes' = << >>
    /\ UNCHANGED << transportRest, audio_channel, received, dsp_buffer, dsp_buffer_idx >>

NextTransport == Core1SendBlock \/ MainTaskCollect \/ MainTaskWritePacket

SpecTransport == Init /\ [][NextTransport]_vars

\* stereo frame g (counted from 0) of the received blocks put one after the
\* other, as the four bytes it has in a packet
ReceivedFrame(g) ==
    LET id == received[(g \div 128) + 1]
        pos == g % 128
    IN  ToLeBytes(SampleToI16(BlockSample(id, 2 * pos + 1)))
            \o ToLeBytes(SampleToI16(BlockSample(id, 2 * pos + 2)))

\* C40: every packet given to the USB endpoint holds exactly 48 stereo
\* frames, and the frames of the packets, in order, are the frames of the
\* received blocks (128 each) in order: frame f of packet p is frame
\* 48 * (p - 1) + f of the concatenation, also where the packet takes its
\* frames from two blocks; the frames taken from the blocks are those in the
\* packets and in the packet being filled, none is left out.
C40_PacketsCarryBlocksInOrder ==
    /\ \A p \in 1..Len(usb_packets) :
        /\ Len(usb_packets[p]) = 48 * 4
        /\ \A f \in 0..47 :
            /\ ((p - 1) * 48 + f) \div 128 < Len(received)
            /\ SubSeq(usb_packets[p], 4 * f + 1, 4 * f + 4) = ReceivedFrame((p - 1) * 48 + f)
    /\ \A f \in 0..(usb_frames_collected - 1) :
        /\ (Len(usb_packets) * 48 + f) \div 128 < Len(received)
        /\ SubSeq(usb_audio_bytes, 4 * f + 1, 4 * f + 4) = ReceivedFrame(Len(usb_packets) * 48 + f)
    /\ usb_frames_collected <= 48
    /\ IF received = << >>
       THEN Len(usb_packets) = 0 /\ usb_frames_collected = 0
       ELSE Len(usb_packets) * 48 + usb_frames_collected
                = (Len(received) - 1) * 128 + dsp_buffer_idx \div 2

\* the third packet was sent: its first 32 frames are the end of the first
\* block, its last 16 the start of the second, and the two blocks differ
C40_Witness ==
    /\ Len(usb_packets) >= 3
    /\ Len(received) >= 2
    /\ received[1] # received[2]

=============================================================================
